---- MODULE Spec2Model ----
(***************************************************************************)
(* A state-machine model of graphql-redis-subscriptions:                   *)
(*   - RedisPubSub (src/src/redis-pubsub.ts, lines 348-443): the           *)
(*     subscription registry, its transport commands and the dispatcher;   *)
(*   - RedisStreamPubSub (src/unnamed/part_003): subscribe / unsubscribe   *)
(*     over the (stream, cursor) buckets;                                  *)
(*   - PubSubAsyncIterator (src/src/pubsub-async-iterator.ts): the         *)
(*     two-queue pull bridge, at the granularity of its await points.      *)
(***************************************************************************)
EXTENDS Integers, Sequences, FiniteSets, TLC

\* ------------------------------------------------------------- bounds
\* subscribe calls made on one engine in a run (ids 0 .. MaxSubs-1)
MaxSubs == 3
\* next() / return() / throw() calls made on the iterator in a run
MaxCalls == 3
\* messages dispatched to the iterator's pushValue in a run
MaxPush == 2
\* close() calls made on one engine in a run
MaxCloses == 2
\* entries appended to a stream in a run, and the last reading of the clock
MaxEntries == 3
MaxTime == 2
\* subscribe calls made on a stream engine whose event loop runs
MaxLoopSubs == 2
\* events given to an iterator wrapped by withFilter, and next() calls made on it
MaxEmit == 2
MaxFilterCalls == 2

\* ------------------------------------------------------------ universe
Names == {"A", "B"}
Ids == 0 .. (MaxSubs - 1)
\* a raw transport message: valid JSON text ("\"a\"" parses to the string a)
\* and text JSON.parse rejects
Messages == {"\"a\"", "b"}
NoId == 0 - 1
\* stream positions 'T-S' as pairs <<T, S>>, and the wall-clock readings of a run
Cursors == {<<1, 0>>, <<2, 0>>}
Times == {1, 2}
\* options.lastMessageId left out
NoCursor == <<>>
\* the ids a stream can give the entries it returns to a read
MessageIds == Cursors \cup {<<3, 0>>}

VARIABLES
  variant,               \* which engine class was constructed
  currentSubscriptionId, \* RedisPubSubBase.currentSubscriptionId
  subscriptionMap,       \* RedisPubSub.subscriptionMap: id -> [trigger, listener]
  subsRefsMap,           \* RedisPubSub.subsRefsMap: name -> Set object (heap index, 0 = no entry)
  heap,                  \* the Set<number> objects ever created, in insertion order
  inflight,              \* transport subscribe commands not yet acknowledged (FIFO)
  transport,             \* per name: commands issued to redisSubscriber so far
  resolved,              \* ids whose subscribe promise resolved
  rejected,              \* ids whose subscribe promise rejected
  removed,               \* ids an unsubscribe call removed without throwing
  raced,                 \* ids still in flight when a subscription issued before them was unsubscribed
  streamsMap,            \* RedisStreamPubSub.streamsMap: stream -> cursor -> ids
  eventLoop,             \* RedisStreamPubSub.eventLoop is set
  subscriberClientId,    \* RedisStreamPubSub.subscriberClientId (0: undefined)
  unblocks,              \* CLIENT UNBLOCK commands sent on redisPublisher
  lastOp,                \* the operation executed last and its outcome
  lastDispatch,          \* listener invocations of the operation executed last
  eventsArray,           \* PubSubAsyncIterator.eventsArray
  listening,             \* PubSubAsyncIterator.listening
  pullQueue,             \* PubSubAsyncIterator.pullQueue: the next() calls waiting, oldest first
  pushQueue,             \* PubSubAsyncIterator.pushQueue: the events buffered, oldest first
  subscriptionIds,       \* PubSubAsyncIterator.subscriptionIds: the Promise.all and its ids
  tasks,                 \* the async calls next / return / throw / pushValue made so far
  mq,                    \* the microtask queue: continuations ready to run (0: Promise.all settles)
  waiters,               \* continuations awaiting subscriptionIds, in the order they awaited
  closed,                \* return() or throw() has been called
  options,               \* the options object given to the constructor
  construction,          \* "none" before the constructor ran, "ok", or the message of its Error
  clients,               \* redisPublisher and redisSubscriber: status, handlers, commands pending
  engineClosed,          \* RedisStreamPubSub.closed
  closes,                \* the promises of the close() calls made so far
  loop,                  \* runEventLoop: where it stands, the watched set it computed, errors logged
  log,                   \* per stream: the positions of the entries appended, oldest first
  clock,                 \* the wall clock, in milliseconds
  delivered,             \* per subscription id: the positions its listener was invoked with
  began,                 \* per subscription id: the cursor subscribe gave it, and was the stream empty
  unblocked,             \* CLIENT UNBLOCK commands the server has executed
  tokens,                \* position tokens handed to sortLastMessageIds, with the numbers they spell
  compared,              \* what sortLastMessageIds returned for each pair of them
  filterFn,              \* withFilter: what filterFn answers for each payload value
  wrapped,               \* withFilter: the wrapped iterator (events buffered, a next() waiting, done)
  nextPromise,           \* withFilter: the next() call in progress on the filtered iterator
  results,               \* withFilter: what the next() calls of the filtered iterator resolved with
  emitted                \* withFilter: the values the wrapped iterator was given, oldest first

regVars == <<currentSubscriptionId, subscriptionMap, subsRefsMap, heap, inflight,
             transport, resolved, rejected, removed, raced>>
streamVars == <<streamsMap, eventLoop, subscriberClientId, unblocks>>
iterVars == <<eventsArray, listening, pullQueue, pushQueue, subscriptionIds, tasks, mq,
              waiters, closed>>
lifeVars == <<options, construction, clients, engineClosed, closes>>
loopVars == <<loop, log, clock, delivered, began, unblocked>>
sortVars == <<tokens, compared>>
filterVars == <<filterFn, wrapped, nextPromise, results, emitted>>
vars == <<variant, lifeVars, loopVars, regVars, streamVars, lastOp, lastDispatch, iterVars,
          sortVars, filterVars>>

\* ------------------------------------------------------------- helpers
EmptyMap == [x \in {} |-> 0]
Put(f, k, v) == [x \in (DOMAIN f) \cup {k} |-> IF x = k THEN v ELSE f[x]]
Del(f, k) == [x \in (DOMAIN f) \ {k} |-> f[x]]

RECURSIVE SeqRemove(_, _)
SeqRemove(s, e) ==
  IF s = <<>> THEN <<>>
  ELSE IF Head(s) = e THEN SeqRemove(Tail(s), e)
  ELSE <<Head(s)>> \o SeqRemove(Tail(s), e)

Range(s) == {s[i] : i \in DOMAIN s}
Count(s, e) == Cardinality({i \in DOMAIN s : s[i] = e})

\* Set.prototype.add on an insertion-ordered set
SetAdd(s, e) == IF e \in Range(s) THEN s ELSE Append(s, e)

\* error: the id named by the message of the Error thrown, if one was thrown
Op(op, id, name, result, error) ==
  [op |-> op, id |-> id, name |-> name, result |-> result, error |-> error]
NoDispatch == [pattern |-> "none", channel |-> "none", msg |-> "none", calls |-> <<>>]
NoCommands == [subscribe |-> 0, psubscribe |-> 0, unsubscribe |-> 0, punsubscribe |-> 0,
               last |-> "none"]

\* ----------------------------------------------------- RedisPubSubBase
\* the options object: which of its members are given
Options == [reviver : BOOLEAN, deserializer : BOOLEAN, subscriber : BOOLEAN,
            publisher : BOOLEAN, connectionListener : BOOLEAN]
DefaultOptions == [reviver |-> FALSE, deserializer |-> FALSE, subscriber |-> FALSE,
                   publisher |-> FALSE, connectionListener |-> FALSE]

\* the options that differ from the default ones in the codec only
Codecs == {o \in Options : /\ ~o.subscriber /\ ~o.publisher /\ ~o.connectionListener
                           /\ ~(o.reviver /\ o.deserializer)}

Handles == {"redisPublisher", "redisSubscriber"}

\* a field that holds no client, a client given in the options, a client
\* the constructor made with new IORedis(connection)
NoClient == [status |-> "undefined", created |-> FALSE, handlers |-> {}, pending |-> <<>>]
GivenClient == [status |-> "open", created |-> FALSE, handlers |-> {}, pending |-> <<>>]
NewClient(connectionListener) ==
  [status |-> "open", created |-> TRUE,
   handlers |-> IF connectionListener THEN {"connect", "error"} ELSE {"error"},
   pending |-> <<>>]

ConflictMessage == "Reviver and deserializer can't be used together"

\* a bug that never finds the two options in conflict
optionsConflict_never(o) == FALSE

\* the test the constructor makes before anything else
optionsConflict(o) == o.reviver /\ o.deserializer

\* RedisPubSubBase.constructor; ioredis tells whether require('ioredis') finds
\* the package
baseConstructor(o, ioredis) ==
  IF optionsConflict(o)
  THEN [construction |-> ConflictMessage, clients |-> [h \in Handles |-> NoClient]]
  ELSE IF o.subscriber /\ o.publisher
  THEN [construction |-> "ok", clients |-> [h \in Handles |-> GivenClient]]
  ELSE IF ioredis
  THEN [construction |-> "ok", clients |-> [h \in Handles |-> NewClient(o.connectionListener)]]
  ELSE [construction |-> "ok", clients |-> [h \in Handles |-> NoClient]]

\* RedisPubSub.constructor and RedisStreamPubSub.constructor: super(options),
\* then the pubsub engine registers its two message handlers
constructor(v, o, ioredis) ==
  LET base == baseConstructor(o, ioredis)
      sub == base.clients["redisSubscriber"]
  IN IF base.construction # "ok" \/ v = "stream" THEN base
     ELSE IF sub.status = "undefined" THEN [base EXCEPT !.construction = "TypeError"]
     ELSE [base EXCEPT !.clients["redisSubscriber"].handlers = @ \cup {"pmessage", "message"}]

\* --------------------------------------------------------- RedisPubSub
\* the default triggerTransform
triggerTransform(trigger, channelOptions) == trigger

\* JSON.parse(message): the parsed value, or the SyntaxError it throws
JSONparse(message) ==
  IF message = "\"a\"" THEN [ok |-> TRUE, value |-> "a"]
  ELSE [ok |-> FALSE, value |-> "SyntaxError"]

\* options.reviver, for one reviver: it replaces the string a by A
reviver(value) == IF value = "a" THEN "A" ELSE value

\* options.deserializer, for one deserializer: it reads the bare word b as B
\* and throws on anything else
deserializer(message) ==
  IF message = "b" THEN [ok |-> TRUE, value |-> "B"]
  ELSE [ok |-> FALSE, value |-> "Error"]

\* this.deserializer ? this.deserializer(message, ...) : JSON.parse(message, this.reviver)
deserialize(o, message) ==
  IF o.deserializer THEN deserializer(message)
  ELSE IF o.reviver /\ JSONparse(message).ok
       THEN [ok |-> TRUE, value |-> reviver(JSONparse(message).value)]
       ELSE JSONparse(message)

\* a bug that leaves the try/catch out: the listeners get what was thrown
parsedMessage_nocatch(message) == deserialize(options, message).value

\* onMessage's try/catch around the deserializer
parsedMessage(message) ==
  IF deserialize(options, message).ok THEN deserialize(options, message).value ELSE message

\* the registry as one value, so that a caller (an iterator) can chain calls
Reg == [id |-> currentSubscriptionId, subs |-> subscriptionMap, refsMap |-> subsRefsMap,
        heap |-> heap, inflight |-> inflight, transport |-> transport,
        resolved |-> resolved, rejected |-> rejected, removed |-> removed,
        raced |-> raced, threw |-> FALSE, error |-> NoId]

SetReg(r) ==
  /\ currentSubscriptionId' = r.id
  /\ subscriptionMap' = r.subs
  /\ subsRefsMap' = r.refsMap
  /\ heap' = r.heap
  /\ inflight' = r.inflight
  /\ transport' = r.transport
  /\ resolved' = r.resolved
  /\ rejected' = r.rejected
  /\ removed' = r.removed
  /\ raced' = r.raced

\* ids of the commands in flight for a name
InFlightIds(q, name) == {q[i].id : i \in {j \in DOMAIN q : q[j].name = name}}

\* does subscribe issue a transport command: refs.size > 0 is false
NeedsCommand(refs) == Len(refs) = 0

\* a bug that issues the plain command for a pattern as well
subscribeFn_plain(pattern) == "subscribe"

\* the transport command subscribe issues: psubscribe for options.pattern
subscribeFn(pattern) == IF pattern THEN "psubscribe" ELSE "subscribe"

\* a bug that hands the same id out again
nextId_same(id) == id

\* this.currentSubscriptionId++: the counter after it gave id
nextId(id) == id + 1

\* RedisPubSub.subscribe, up to the return of its promise
subscribe(r, trigger, listener, pattern) ==
  LET triggerName == triggerTransform(trigger, pattern)
      id == r.id
      fresh == r.refsMap[triggerName] = 0
      heap1 == IF fresh THEN Append(r.heap, <<>>) ELSE r.heap
      map1 == IF fresh THEN [r.refsMap EXCEPT ![triggerName] = Len(heap1)] ELSE r.refsMap
      h == map1[triggerName]
      r1 == [r EXCEPT !.id = nextId(id),
                      !.subs = Put(r.subs, id, [trigger |-> triggerName, listener |-> listener]),
                      !.refsMap = map1,
                      !.heap = heap1]
      cmd == subscribeFn(pattern)
  IN IF ~NeedsCommand(heap1[h])
     THEN [r1 EXCEPT !.heap[h] = SetAdd(heap1[h], id),
                     !.resolved = r.resolved \cup {id}]
     ELSE [r1 EXCEPT !.inflight = Append(r.inflight,
                                     [id |-> id, name |-> triggerName, refs |-> h,
                                      pattern |-> pattern,
                                      after |-> InFlightIds(r.inflight, triggerName)]),
                     !.transport[triggerName][cmd] = @ + 1,
                     !.transport[triggerName].last = cmd]

\* the callback subscribe hands to the transport, called for the oldest command
subscribeCallback(r, err) ==
  LET c == Head(r.inflight)
      r1 == [r EXCEPT !.inflight = Tail(r.inflight)]
  IN IF err
     THEN [r1 EXCEPT !.rejected = r.rejected \cup {c.id}]
     ELSE [r1 EXCEPT !.heap[c.refs] = SetAdd(r.heap[c.refs], c.id),
                     !.resolved = r.resolved \cup {c.id}]

\* a bug that also treats a set of several references as the last one
LastRef_any(refs) == Len(refs) >= 1

\* is this the last reference: refs.size === 1
LastRef(refs) == Len(refs) = 1

\* the name recorded for subId ("null" without a record) and its Set object
triggerNameOf(r, subId) == IF subId \in DOMAIN r.subs THEN r.subs[subId].trigger ELSE "null"
refsOf(r, subId) ==
  IF triggerNameOf(r, subId) \in Names THEN r.refsMap[triggerNameOf(r, subId)] ELSE 0

\* RedisPubSub.unsubscribe past its check of refs
removeReference(r, subId) ==
  LET triggerName == triggerNameOf(r, subId)
      h == refsOf(r, subId)
      waiting == {r.inflight[i].id : i \in {j \in DOMAIN r.inflight :
                     r.inflight[j].name = triggerName /\ subId \in r.inflight[j].after}}
      r1 == [r EXCEPT !.subs = Del(r.subs, subId),
                      !.removed = r.removed \cup {subId},
                      !.raced = r.raced \cup waiting]
  IN IF LastRef(r.heap[h])
     THEN [r1 EXCEPT !.transport[triggerName].unsubscribe = @ + 1,
                     !.transport[triggerName].punsubscribe = @ + 1,
                     !.transport[triggerName].last = "punsubscribe",
                     !.refsMap[triggerName] = 0]
     ELSE [r1 EXCEPT !.heap[h] = SeqRemove(r.heap[h], subId)]

\* a bug that returns instead of throwing when there are no refs
unsubscribe_returns(r, subId) ==
  IF refsOf(r, subId) = 0 THEN r ELSE removeReference(r, subId)

\* RedisPubSub.unsubscribe; r.threw tells whether it threw
unsubscribe(r, subId) ==
  IF refsOf(r, subId) = 0
  THEN [r EXCEPT !.threw = TRUE, !.error = subId]
  ELSE removeReference(r, subId)

\* a bug that looks a pattern message up under its channel
messageKey_channel(pattern, channel) == channel

\* the key onMessage looks up: pattern || channel
messageKey(pattern, channel) == IF pattern # "undefined" THEN pattern ELSE channel

\* RedisPubSub.onMessage: the listener invocations it makes, in order.
\* A reference without a subscription record makes the destructuring throw,
\* which ends the forEach.
RECURSIVE invoke(_, _, _)
invoke(subs, refs, payload) ==
  IF refs = <<>> THEN <<>>
  ELSE IF Head(refs) \notin DOMAIN subs THEN <<>>
  ELSE <<[id |-> Head(refs), listener |-> subs[Head(refs)].listener, payload |-> payload]>>
       \o invoke(subs, Tail(refs), payload)

onMessage(r, pattern, channel, message) ==
  LET h == r.refsMap[messageKey(pattern, channel)]
  IN IF h = 0 \/ Len(r.heap[h]) = 0 THEN <<>>
     ELSE invoke(r.subs, r.heap[h], parsedMessage(message))

\* --------------------------------------------------- RedisStreamPubSub
\* the comparator of position tokens: negative, zero or positive
sortLastMessageIds(a, b) ==
  IF a = b THEN 0
  ELSE IF a[1] = b[1] THEN a[2] - b[2]
  ELSE a[1] - b[1]

\* a bug that takes the first key of the sorted list
LastKey_least(keys) == CHOOSE k \in keys : \A o \in keys : sortLastMessageIds(k, o) <= 0

\* Object.keys(bucketsOfStream).sort(sortLastMessageIds).at(-1)
LastKey(keys) == CHOOSE k \in keys : \A o \in keys : sortLastMessageIds(o, k) <= 0

\* Array.prototype.splice(index, 1), where index -1 counts from the end
Splice1(s, index) ==
  LET at == IF index = 0 THEN Len(s) ELSE index
  IN IF s = <<>> THEN s ELSE SubSeq(s, 1, at - 1) \o SubSeq(s, at + 1, Len(s))

\* Array.prototype.indexOf, 1-based, 0 when absent
IndexOf(s, e) == IF e \in Range(s) THEN CHOOSE i \in DOMAIN s : s[i] = e /\ \A j \in 1 .. (i - 1) : s[j] # e
                 ELSE 0

\* RedisStreamPubSub.subscribe, but for the start of the event loop
subscribeStream(streamName, lastMessageIdOption, now) ==
  /\ variant = "stream"
  /\ currentSubscriptionId < MaxSubs
  /\ LET id == currentSubscriptionId
         buckets == IF streamName \in DOMAIN streamsMap THEN streamsMap[streamName] ELSE EmptyMap
         lastMessageId == IF lastMessageIdOption # NoCursor THEN lastMessageIdOption
                          ELSE IF DOMAIN buckets # {} THEN LastKey(DOMAIN buckets)
                          ELSE <<now, 0>>
         requiresNewCommand == lastMessageId \notin DOMAIN buckets
         bucket == IF requiresNewCommand THEN <<>> ELSE buckets[lastMessageId]
     IN /\ currentSubscriptionId' = nextId(id)
        /\ subscriptionMap' = Put(subscriptionMap, id,
                                  [trigger |-> streamName, lastMessageId |-> lastMessageId,
                                   listener |-> "callback"])
        /\ streamsMap' = Put(streamsMap, streamName, Put(buckets, lastMessageId, Append(bucket, id)))
        /\ unblocks' = IF requiresNewCommand /\ subscriberClientId # 0 THEN unblocks + 1 ELSE unblocks
        /\ eventLoop' = TRUE
        /\ resolved' = resolved \cup {id}
        /\ lastOp' = Op("subscribe", id, streamName, "resolved", NoId)
  /\ lastDispatch' = NoDispatch
  /\ UNCHANGED <<variant, sortVars, filterVars, lifeVars, subsRefsMap, heap, inflight, transport, rejected, removed,
                 raced, subscriberClientId, iterVars>>

\* RedisStreamPubSub.subscribe where the event loop is left out
StreamSubscribe(streamName, lastMessageIdOption, now) ==
  /\ subscribeStream(streamName, lastMessageIdOption, now)
  /\ UNCHANGED loopVars

\* the stream engine's tables as one value, so that a dispatch can chain calls
SReg == [subs |-> subscriptionMap, streams |-> streamsMap, unblocks |-> unblocks,
         removed |-> removed, threw |-> FALSE]

\* the bucket of a stream and cursor (empty when there is none)
Bucket(streams, streamName, lastMessageId) ==
  IF streamName \in DOMAIN streams /\ lastMessageId \in DOMAIN streams[streamName]
  THEN streams[streamName][lastMessageId] ELSE <<>>

\* RedisStreamPubSub.unsubscribe; s.threw tells whether it threw
streamUnsubscribe(s, subId) ==
  IF subId \notin DOMAIN s.subs
  THEN [s EXCEPT !.threw = TRUE]
  ELSE LET streamName == s.subs[subId].trigger
           lastMessageId == s.subs[subId].lastMessageId
           bucket == Splice1(s.streams[streamName][lastMessageId],
                             IndexOf(s.streams[streamName][lastMessageId], subId))
           buckets == IF bucket = <<>> THEN Del(s.streams[streamName], lastMessageId)
                      ELSE Put(s.streams[streamName], lastMessageId, bucket)
       IN [s EXCEPT !.streams = IF DOMAIN buckets = {} THEN Del(s.streams, streamName)
                                 ELSE Put(s.streams, streamName, buckets),
                    !.unblocks = IF bucket = <<>> THEN s.unblocks + 1 ELSE s.unblocks,
                    !.subs = Del(s.subs, subId),
                    !.removed = s.removed \cup {subId}]

\* RedisStreamPubSub.unsubscribe, called by a consumer
StreamUnsubscribe(subId) ==
  /\ variant = "stream"
  /\ subId \in resolved \cup {i \in 0 .. MaxSubs : i >= currentSubscriptionId}
  /\ LET s == streamUnsubscribe(SReg, subId)
     IN /\ subscriptionMap' = s.subs
        /\ streamsMap' = s.streams
        /\ unblocks' = s.unblocks
        /\ removed' = s.removed
        /\ lastOp' = IF s.threw THEN Op("unsubscribe", subId, "null", "threw", subId)
                     ELSE Op("unsubscribe", subId, subscriptionMap[subId].trigger, "ok", NoId)
  /\ lastDispatch' = NoDispatch
  /\ UNCHANGED <<variant, sortVars, filterVars, loopVars, lifeVars, currentSubscriptionId, subsRefsMap, heap, inflight, transport,
                 resolved, rejected, raced, eventLoop, subscriberClientId, iterVars>>

\* ------------------------------------------------------------- actions
\* ids a caller can pass to unsubscribe: ids a subscribe promise resolved
\* with (also ones already unsubscribed) and numbers no subscribe allocated
CallerIds == resolved \cup {i \in 0 .. MaxSubs : i >= currentSubscriptionId}

Subscribe(trigger, pattern) ==
  /\ variant = "pubsub"
  /\ currentSubscriptionId < MaxSubs
  /\ LET r == subscribe(Reg, trigger, "callback", pattern)
     IN /\ SetReg(r)
        /\ lastOp' = Op("subscribe", currentSubscriptionId, triggerTransform(trigger, pattern),
                        IF currentSubscriptionId \in r.resolved THEN "resolved" ELSE "pending",
                        NoId)
  /\ lastDispatch' = NoDispatch
  /\ UNCHANGED <<variant, sortVars, filterVars, loopVars, lifeVars, streamVars, iterVars>>

Acknowledge(err) ==
  /\ variant = "pubsub"
  /\ inflight # <<>>
  /\ SetReg(subscribeCallback(Reg, err))
  /\ lastOp' = Op("acknowledge", Head(inflight).id, Head(inflight).name,
                  IF err THEN "rejected" ELSE "resolved", NoId)
  /\ lastDispatch' = NoDispatch
  /\ UNCHANGED <<variant, sortVars, filterVars, loopVars, lifeVars, streamVars, iterVars>>

Unsubscribe(subId) ==
  /\ variant = "pubsub"
  /\ subId \in CallerIds
  /\ LET r == unsubscribe(Reg, subId)
     IN /\ SetReg(r)
        /\ lastOp' = Op("unsubscribe", subId,
                        IF subId \in DOMAIN subscriptionMap
                        THEN subscriptionMap[subId].trigger ELSE "null",
                        IF r.threw THEN "threw" ELSE "ok", r.error)
  /\ lastDispatch' = NoDispatch
  /\ UNCHANGED <<variant, sortVars, filterVars, loopVars, lifeVars, streamVars, iterVars>>

Message(pattern, channel, message) ==
  /\ variant = "pubsub"
  /\ lastDispatch' = [pattern |-> pattern, channel |-> channel, msg |-> message,
                      calls |-> onMessage(Reg, pattern, channel, message)]
  /\ lastOp' = Op("message", NoId, channel, "ok", NoId)
  /\ UNCHANGED <<variant, sortVars, filterVars, loopVars, lifeVars, regVars, streamVars, iterVars>>

\* ------------------------------------------------------- specification
\* no event loop runs
NoLoop == [pc |-> "none", watched |-> EmptyMap, logged |-> 0]

\* no subscriptionIds yet
Unset == [state |-> "unset", ids |-> <<>>]

\* no token was handed to the comparator
InitSortFields ==
  /\ tokens = <<>>
  /\ compared = <<>>

\* no iterator is wrapped by withFilter
NoPayload == [value |-> "none", done |-> FALSE]
NoCall == [pc |-> "idle", payload |-> NoPayload, round |-> 0]
InitFilterFields ==
  /\ filterFn = <<>>
  /\ wrapped = [values |-> <<>>, waiting |-> FALSE, done |-> FALSE]
  /\ nextPromise = NoCall
  /\ results = <<>>
  /\ emitted = <<>>

\* the fields of an engine and of an iterator as their constructors set them
InitEngineFields ==
  /\ loop = NoLoop
  /\ log = [n \in Names |-> <<>>]
  /\ clock = 1
  /\ delivered = EmptyMap
  /\ began = EmptyMap
  /\ unblocked = 0
  /\ engineClosed = FALSE
  /\ closes = <<>>
  /\ currentSubscriptionId = 0
  /\ subscriptionMap = EmptyMap
  /\ subsRefsMap = [n \in Names |-> 0]
  /\ heap = <<>>
  /\ inflight = <<>>
  /\ transport = [n \in Names |-> NoCommands]
  /\ resolved = {}
  /\ rejected = {}
  /\ removed = {}
  /\ raced = {}
  /\ streamsMap = EmptyMap
  /\ eventLoop = FALSE
  /\ subscriberClientId = 0
  /\ unblocks = 0
  /\ lastOp = Op("init", NoId, "none", "ok", NoId)
  /\ lastDispatch = NoDispatch
  /\ listening = TRUE
  /\ pullQueue = <<>>
  /\ pushQueue = <<>>
  /\ subscriptionIds = Unset
  /\ tasks = <<>>
  /\ mq = <<>>
  /\ waiters = <<>>
  /\ closed = FALSE

InitFields ==
  /\ InitSortFields
  /\ InitFilterFields
  /\ InitEngineFields

\* the engine after its constructor, and an iterator after its own
InitEngine ==
  /\ construction = "ok"
  /\ clients = constructor(variant, options, TRUE).clients
  /\ InitFields

Init ==
  /\ variant \in {"pubsub", "stream"}
  /\ options \in Codecs
  /\ eventsArray = <<>>
  /\ InitEngine

Next ==
  \/ \E t \in Names, p \in BOOLEAN : Subscribe(t, p)
  \/ \E e \in BOOLEAN : Acknowledge(e)
  \/ \E i \in 0 .. MaxSubs : Unsubscribe(i)
  \/ \E p \in Names \cup {"undefined"}, c \in Names, m \in Messages : Message(p, c, m)
  \/ \E n \in Names, c \in Cursors \cup {NoCursor}, t \in Times : StreamSubscribe(n, c, t)
  \/ \E i \in 0 .. MaxSubs : StreamUnsubscribe(i)

Spec == Init /\ [][Next]_vars

\* ------------------------------------------------------------- notions
\* the reference-set the registry holds for a name (empty when it holds none)
Held(name) == IF subsRefsMap[name] = 0 THEN <<>> ELSE heap[subsRefsMap[name]]

\* subscriptions whose promise resolved and that no unsubscribe call removed
Live == resolved \ removed
LiveOn(name) == {i \in Live : subscriptionMap[i].trigger = name}

\* the last command issued for a name subscribes the connection to it
TransportSubscribed(name) == transport[name].last \in {"subscribe", "psubscribe"}

\* --------------------------------------------------------------- C1
\* C1: for every channel, at most one transport subscribe (or psubscribe)
\* command is in flight at any instant.
C1_AtMostOneInFlight ==
  variant = "pubsub" =>
    \A n \in Names : Cardinality(InFlightIds(inflight, n)) <= 1

\* --------------------------------------------------------------- C2
\* C2: while a subscription on a channel is resolved and not unsubscribed,
\* the last transport command issued for the channel is a subscribe; and
\* once the last command is an unsubscribe, no such subscription is left.
C2_LiveImpliesTransportSubscribed ==
  variant = "pubsub" =>
    \A n \in Names :
      /\ LiveOn(n) # {} => TransportSubscribed(n)
      /\ transport[n].last = "punsubscribe" => LiveOn(n) = {}

C4_UnsubscribeStep ==
  (variant = "pubsub" /\ lastOp'.op = "unsubscribe" /\ lastOp'.result = "ok") =>
    LET id == lastOp'.id
        n == subscriptionMap[id].trigger
        h == subsRefsMap[n]
    IN /\ Held(n) = <<id>> =>
            /\ transport'[n].unsubscribe = transport[n].unsubscribe + 1
            /\ transport'[n].punsubscribe = transport[n].punsubscribe + 1
            /\ transport'[n].subscribe = transport[n].subscribe
            /\ transport'[n].psubscribe = transport[n].psubscribe
            /\ \A o \in Names \ {n} : transport'[o] = transport[o]
            /\ subsRefsMap'[n] = 0
       /\ (id \in Range(Held(n)) /\ Len(Held(n)) > 1) =>
            /\ transport' = transport
            /\ subsRefsMap' = subsRefsMap
            /\ heap'[h] = SeqRemove(heap[h], id)
            /\ Len(heap'[h]) = Len(heap[h]) - 1
            /\ \A o \in DOMAIN heap \ {h} : heap'[o] = heap[o]

C5_UnknownIdStep ==
  (lastOp'.op = "unsubscribe" /\ (lastOp'.id >= currentSubscriptionId \/ lastOp'.id \in removed)) =>
    /\ lastOp'.result = "threw"
    /\ lastOp'.error = lastOp'.id
    /\ transport' = transport
    /\ unblocks' = unblocks
    /\ subscriptionMap' = subscriptionMap
    /\ subsRefsMap' = subsRefsMap
    /\ heap' = heap
    /\ streamsMap' = streamsMap

C5_UnknownIdThrows == [][C5_UnknownIdStep]_vars

\* a second unsubscribe of the same id threw while another subscription of
\* its channel stayed registered
C5_Witness ==
  /\ variant = "pubsub"
  /\ lastOp.op = "unsubscribe" /\ lastOp.result = "threw"
  /\ lastOp.id \in removed
  /\ \E n \in Names : Len(Held(n)) > 0

\* --------------------------------------------------------------- C6
\* C6: a subscription issued while an earlier command for its channel was in
\* flight, whose predecessor was unsubscribed after its own acknowledgment
\* and before this one's, can still be unsubscribed without an error once it
\* resolved (only a repeated unsubscribe throws).
C6_SecondSurvivesRace ==
  (variant = "pubsub" /\ lastOp.op = "unsubscribe" /\ lastOp.id \in raced \cap resolved) =>
    (lastOp.result = "ok" \/ lastOp.id \in removed)

\* --------------------------------------------------------------- C7
\* C7: after the transport reported an error for a subscribe command, the
\* registry holds no subscription record for the id the call allocated and no
\* (empty) reference-set entry that the failed call created.
C7_NoResidueAfterError ==
  variant = "pubsub" =>
    /\ \A i \in rejected : i \notin DOMAIN subscriptionMap
    /\ (lastOp.op = "acknowledge" /\ lastOp.result = "rejected"
        /\ InFlightIds(inflight, lastOp.name) = {} /\ Held(lastOp.name) = <<>>)
       => subsRefsMap[lastOp.name] = 0

\* -------------------------------------------------------------- C17
\* C17: when the configured deserializer, or JSON.parse with the optional
\* reviver, fails on the message the transport delivers, the dispatch ends
\* without an error and has invoked every member of the reference-set of the
\* message's name with the raw message.
C17_RawOnFailure ==
  (variant = "pubsub" /\ lastOp.op = "message"
     /\ ~deserialize(options, lastDispatch.msg).ok) =>
    /\ lastOp.result = "ok"
    /\ \A i \in Range(Held(messageKey(lastDispatch.pattern, lastDispatch.channel))) :
         \E c \in DOMAIN lastDispatch.calls :
           /\ lastDispatch.calls[c].id = i
           /\ lastDispatch.calls[c].payload = lastDispatch.msg
    /\ \A c \in DOMAIN lastDispatch.calls : lastDispatch.calls[c].payload = lastDispatch.msg

\* the custom deserializer threw on "a" in quotes, which JSON.parse reads, and
\* two listeners got the quoted text
C17_Witness ==
  /\ variant = "pubsub"
  /\ lastOp.op = "message"
  /\ options.deserializer
  /\ lastDispatch.msg = "\"a\""
  /\ Len(lastDispatch.calls) = 2
  /\ \A c \in DOMAIN lastDispatch.calls : lastDispatch.calls[c].payload = "\"a\""

\* -------------------------------------------------------------- C20
\* C20: a subscribe with the pattern option that finds no reference of its
\* name issues one psubscribe and no subscribe (without the option: one
\* subscribe and no psubscribe), and one that finds a reference issues
\* nothing; a message delivered with a pattern P invokes exactly the members
\* of the reference-set of P, one delivered without pattern exactly those of
\* its channel.
C20_PatternStep ==
  /\ (variant = "pubsub" /\ lastOp'.op = "subscribe") =>
       LET n == lastOp'.name
           issued == Len(inflight') = Len(inflight) + 1
           c == inflight'[Len(inflight')]
       IN /\ issued <=> Held(n) = <<>>
          /\ issued =>
               /\ c.id = lastOp'.id /\ c.name = n
               /\ transport'[n].psubscribe = transport[n].psubscribe + (IF c.pattern THEN 1 ELSE 0)
               /\ transport'[n].subscribe = transport[n].subscribe + (IF c.pattern THEN 0 ELSE 1)
          /\ ~issued => transport' = transport
          /\ \A o \in Names \ {n} : transport'[o] = transport[o]
  /\ (variant = "pubsub" /\ lastOp'.op = "message") =>
       LET invoked == {lastDispatch'.calls[c].id : c \in DOMAIN lastDispatch'.calls}
       IN IF lastDispatch'.pattern # "undefined"
          THEN invoked = Range(Held(lastDispatch'.pattern))
          ELSE invoked = Range(Held(lastDispatch'.channel))

C20_PatternRouting == [][C20_PatternStep]_vars

\* a message of channel B that matched the pattern A was just dispatched to
\* the subscription made with psubscribe for A, and not to the one of B
C20_Witness ==
  /\ variant = "pubsub"
  /\ lastOp.op = "message"
  /\ lastDispatch.pattern = "A" /\ lastDispatch.channel = "B"
  /\ transport["A"].psubscribe = 1 /\ transport["A"].subscribe = 0
  /\ transport["B"].subscribe = 1
  /\ Len(lastDispatch.calls) = 1
  /\ Len(Held("B")) = 1

\* -------------------------------------------------------------- C29
\* C29: the id counter of an engine never decreases, and every subscribe call
\* (of either engine, also after unsubscribes and after a subscribe the
\* transport rejected) takes the counter's value, advances it by one, and so
\* gets an id greater than every id allocated before.
Allocated ==
  DOMAIN subscriptionMap \cup resolved \cup rejected \cup removed
    \cup {inflight[i].id : i \in DOMAIN inflight}

C29_IdStep ==
  /\ currentSubscriptionId' >= currentSubscriptionId
  /\ \A i \in Allocated : i < currentSubscriptionId
  /\ (lastOp'.op = "subscribe" /\ lastOp' # lastOp) =>
       /\ lastOp'.id = currentSubscriptionId
       /\ currentSubscriptionId' = currentSubscriptionId + 1
       /\ \A i \in Allocated : i < lastOp'.id

C29_IdsNeverReused == [][C29_IdStep]_vars

\* the third subscribe of an engine, made after one subscribe was rejected
\* and one subscription was unsubscribed, got the id 2
C29_Witness ==
  /\ lastOp.op = "subscribe" /\ lastOp.id = 2
  /\ rejected # {} /\ removed # {}

\* -------------------------------------------------------------- C30
\* C30: no unsubscribe and no punsubscribe is sent for a name while a
\* subscribe or psubscribe command for that name is unacknowledged.
C30_UnsubscribeStep ==
  variant = "pubsub" =>
    \A n \in Names :
      (\/ transport'[n].unsubscribe > transport[n].unsubscribe
       \/ transport'[n].punsubscribe > transport[n].punsubscribe)
      => InFlightIds(inflight, n) = {}

C30_NoUnsubscribeWhilePending == [][C30_UnsubscribeStep]_vars

\* -------------------------------------------------- PubSubAsyncIterator
\* An async call is a task: its kind, the await it is suspended at (pc), how
\* its promise settled (result), whether it was made after return()/throw()
\* (afterClose), whether it is the return()/throw() that found the iterator
\* listening (first), and the event it carries (a push) or resolved with (a
\* next), with whether that event was dispatched after return()/throw() and
\* the pushValue call that brought it (from); for a return() or throw(), the
\* ids it called the engine's unsubscribe with (unsub).
NewTask(kind, pc, first, ev) ==
  [kind |-> kind, pc |-> pc, result |-> "pending", afterClose |-> closed, first |-> first,
   ev |-> ev, evAfterClose |-> (kind = "push" /\ closed), from |-> 0,
   unsub |-> <<>>]

\* a bug that takes the newest element (pop) where the oldest is meant
shift_pop(q) == q[Len(q)]

\* Array.prototype.shift: the element it returns
shift(q) == Head(q)

\* eventsArray.map(eventName => pubsub.subscribe(eventName, pushValue, options))
RECURSIVE subscribeEach(_, _)
subscribeEach(r, events) ==
  IF events = <<>> THEN r
  ELSE subscribeEach(subscribe(r, Head(events), "push", FALSE), Tail(events))

\* a bug that subscribes again on every call
subscribeAll_again(r, sids) ==
  [reg |-> subscribeEach(r, eventsArray),
   sids |-> [state |-> "pending",
             ids |-> [i \in 1 .. Len(eventsArray) |-> r.id + i - 1]]]

\* PubSubAsyncIterator.subscribeAll: the registry and subscriptionIds after it
subscribeAll(r, sids) ==
  IF sids.state # "unset" THEN [reg |-> r, sids |-> sids]
  ELSE [reg |-> subscribeEach(r, eventsArray),
        sids |-> [state |-> "pending",
                  ids |-> [i \in 1 .. Len(eventsArray) |-> r.id + i - 1]]]

\* Promise.all settles: one of its promises rejected, or all of them resolved
PromiseAllSettles(r, sids) ==
  /\ sids.state = "pending"
  /\ \/ Range(sids.ids) \cap r.rejected # {}
     \/ Range(sids.ids) \subseteq r.resolved

\* the microtask queue once the reaction that settles Promise.all is queued
QueueSettle(q, r, sids) ==
  IF PromiseAllSettles(r, sids) /\ 0 \notin Range(q) THEN Append(q, 0) ELSE q

\* await this.subscriptionIds by task t: the continuation is queued at once
\* when the promise is settled, and waits for it otherwise
Await(q, w, sids, t) ==
  IF sids.state \in {"resolved", "rejected"}
  THEN [mq |-> Append(q, t), waiters |-> w]
  ELSE [mq |-> q, waiters |-> Append(w, t)]

\* PubSubAsyncIterator.unsubscribeAll: the loop ends at the first throw
RECURSIVE unsubscribeAll(_, _)
unsubscribeAll(r, ids) ==
  IF ids = <<>> \/ r.threw THEN r
  ELSE unsubscribeAll(unsubscribe(r, Head(ids)), Tail(ids))

\* the ids unsubscribeAll calls unsubscribe with, up to the call that throws
RECURSIVE attempted(_, _)
attempted(r, ids) ==
  IF ids = <<>> THEN <<>>
  ELSE <<Head(ids)>> \o (IF unsubscribe(r, Head(ids)).threw THEN <<>>
                         ELSE attempted(unsubscribe(r, Head(ids)), Tail(ids)))

\* pullQueue.forEach(resolve => resolve({ value: undefined, done: true }))
Drain(ts, q) ==
  [t \in DOMAIN ts |-> IF t \in Range(q) THEN [ts[t] EXCEPT !.result = "done", !.pc = "end"]
                       ELSE ts[t]]

\* calls made by the consumer, and events pushed, so far
Calls == {t \in DOMAIN tasks : tasks[t].kind # "push"}
Pushes == {t \in DOMAIN tasks : tasks[t].kind = "push"}

\* next(), up to its await of subscribeAll()
next ==
  /\ Cardinality(Calls) < MaxCalls
  /\ subscriptionIds.state = "unset" => currentSubscriptionId + Len(eventsArray) <= MaxSubs
  /\ LET t == Len(tasks) + 1
         s == subscribeAll(Reg, subscriptionIds)
         a == Await(mq, waiters, s.sids, t)
     IN /\ SetReg(s.reg)
        /\ subscriptionIds' = s.sids
        /\ tasks' = Append(tasks, NewTask("next", "awaitIds", FALSE, "none"))
        /\ mq' = QueueSettle(a.mq, s.reg, s.sids)
        /\ waiters' = a.waiters
  /\ UNCHANGED <<variant, sortVars, filterVars, loopVars, lifeVars, lastOp, lastDispatch, streamVars, eventsArray, listening, pullQueue,
                 pushQueue, closed>>

\* return() and throw(), up to the first await: emptyQueue() runs to its
\* await of subscriptionIds, or to its end when there is nothing to await
emptyQueue(kind) ==
  /\ Cardinality(Calls) < MaxCalls
  /\ LET t == Len(tasks) + 1
         a == Await(mq, waiters, subscriptionIds, t)
     IN IF listening /\ subscriptionIds.state # "unset"
        THEN /\ listening' = FALSE
             /\ tasks' = Append(tasks, NewTask(kind, "awaitIds", TRUE, "none"))
             /\ mq' = a.mq
             /\ waiters' = a.waiters
             /\ UNCHANGED <<pullQueue, pushQueue>>
        ELSE /\ listening' = FALSE
             /\ tasks' = Append(IF listening THEN Drain(tasks, pullQueue) ELSE tasks,
                                NewTask(kind, "awaitEmpty", listening, "none"))
             /\ pullQueue' = IF listening THEN <<>> ELSE pullQueue
             /\ pushQueue' = IF listening THEN <<>> ELSE pushQueue
             /\ mq' = Append(mq, Len(tasks) + 1)
             /\ UNCHANGED waiters
  /\ closed' = TRUE
  /\ UNCHANGED <<variant, sortVars, filterVars, loopVars, lifeVars, lastOp, lastDispatch, regVars, streamVars, eventsArray, subscriptionIds>>

return == emptyQueue("return")
throw == emptyQueue("throw")

\* pushValue(event) for every invocation of the iterator's listener by one
\* dispatch, each up to its await of subscribeAll()
RECURSIVE pushValue(_, _)
pushValue(st, calls) ==
  IF calls = <<>> THEN st
  ELSE IF Head(calls).listener # "push" THEN pushValue(st, Tail(calls))
  ELSE LET t == Len(st.tasks) + 1
           a == Await(st.mq, st.waiters, subscriptionIds, t)
       IN pushValue([tasks |-> Append(st.tasks,
                                      NewTask("push", "awaitIds", FALSE, Head(calls).payload)),
                     mq |-> a.mq, waiters |-> a.waiters],
                    Tail(calls))

\* ---- microtasks: the continuation at the head of the queue runs
\* Promise.all settles and the continuations awaiting it are queued in order
PromiseAll ==
  /\ mq # <<>> /\ Head(mq) = 0
  /\ subscriptionIds' = [subscriptionIds EXCEPT
                           !.state = IF Range(subscriptionIds.ids) \cap rejected # {}
                                     THEN "rejected" ELSE "resolved"]
  /\ mq' = Tail(mq) \o waiters
  /\ waiters' = <<>>
  /\ UNCHANGED <<variant, sortVars, filterVars, loopVars, lifeVars, lastOp, lastDispatch, regVars, streamVars, eventsArray, listening,
                 pullQueue, pushQueue, tasks, closed>>

\* next() after its await: listening ? pullValue() : return()
nextResume ==
  /\ mq # <<>> /\ Head(mq) # 0 /\ tasks[Head(mq)].kind = "next"
  /\ LET t == Head(mq)
     IN /\ mq' = Tail(mq)
        /\ IF subscriptionIds.state = "rejected"
           THEN /\ tasks' = [tasks EXCEPT ![t].result = "rejected", ![t].pc = "end"]
                /\ UNCHANGED <<pullQueue, pushQueue>>
           ELSE IF ~listening
           THEN /\ tasks' = [tasks EXCEPT ![t].result = "done", ![t].pc = "end"]
                /\ UNCHANGED <<pullQueue, pushQueue>>
           ELSE IF pushQueue # <<>>
           THEN /\ tasks' = [tasks EXCEPT ![t].result = "value", ![t].pc = "end",
                                          ![t].ev = shift(pushQueue).ev,
                                          ![t].evAfterClose = shift(pushQueue).afterClose,
                                          ![t].from = shift(pushQueue).from]
                /\ pushQueue' = SeqRemove(pushQueue, shift(pushQueue))
                /\ UNCHANGED pullQueue
           ELSE /\ tasks' = [tasks EXCEPT ![t].pc = "pulling"]
                /\ pullQueue' = Append(pullQueue, t)
                /\ UNCHANGED pushQueue
  /\ UNCHANGED <<variant, sortVars, filterVars, loopVars, lifeVars, lastOp, lastDispatch, regVars, streamVars, eventsArray, listening,
                 subscriptionIds, waiters, closed>>

\* emptyQueue() after its await of subscriptionIds: unsubscribeAll, then the
\* queues; a rejected await or a throw of unsubscribe rejects emptyQueue()
\* and with it the return() or throw() awaiting it
emptyQueueResume ==
  /\ mq # <<>> /\ Head(mq) # 0
  /\ tasks[Head(mq)].kind \in {"return", "throw"} /\ tasks[Head(mq)].pc = "awaitIds"
  /\ LET t == Head(mq)
         r == unsubscribeAll(Reg, subscriptionIds.ids)
     IN IF subscriptionIds.state = "rejected"
        THEN /\ tasks' = [tasks EXCEPT ![t].result = "rejected", ![t].pc = "end"]
             /\ mq' = Tail(mq)
             /\ UNCHANGED <<regVars, pullQueue, pushQueue>>
        ELSE IF r.threw
        THEN /\ SetReg(r)
             /\ tasks' = [tasks EXCEPT ![t].result = "rejected", ![t].pc = "end",
                                       ![t].unsub = attempted(Reg, subscriptionIds.ids)]
             /\ mq' = Tail(mq)
             /\ UNCHANGED <<pullQueue, pushQueue>>
        ELSE /\ SetReg(r)
             /\ tasks' = [Drain(tasks, pullQueue) EXCEPT
                            ![t].pc = "awaitEmpty",
                            ![t].unsub = attempted(Reg, subscriptionIds.ids)]
             /\ pullQueue' = <<>>
             /\ pushQueue' = <<>>
             /\ mq' = Append(Tail(mq), t)
  /\ UNCHANGED <<variant, sortVars, filterVars, loopVars, lifeVars, lastOp, lastDispatch, streamVars, eventsArray, listening,
                 subscriptionIds, waiters, closed>>

\* return() / throw() after await this.emptyQueue()
returnResume ==
  /\ mq # <<>> /\ Head(mq) # 0
  /\ tasks[Head(mq)].kind \in {"return", "throw"} /\ tasks[Head(mq)].pc = "awaitEmpty"
  /\ LET t == Head(mq)
     IN /\ tasks' = [tasks EXCEPT ![t].pc = "end",
                                  ![t].result = IF tasks[t].kind = "return" THEN "done"
                                                ELSE "thrown"]
  /\ mq' = Tail(mq)
  /\ UNCHANGED <<variant, sortVars, filterVars, loopVars, lifeVars, lastOp, lastDispatch, regVars, streamVars, eventsArray, listening,
                 pullQueue, pushQueue, subscriptionIds, waiters, closed>>

\* a bug that buffers every event, whether or not a request waits
hasPending_never(q) == FALSE

\* this.pullQueue.length !== 0 / this.pushQueue.length !== 0
hasPending(q) == q # <<>>

\* pushValue(event) after its await
pushValueResume ==
  /\ mq # <<>> /\ Head(mq) # 0 /\ tasks[Head(mq)].kind = "push"
  /\ LET t == Head(mq)
     IN /\ IF subscriptionIds.state = "rejected"
           THEN /\ tasks' = [tasks EXCEPT ![t].result = "rejected", ![t].pc = "end"]
                /\ UNCHANGED <<pullQueue, pushQueue>>
           ELSE IF hasPending(pullQueue)
           THEN /\ tasks' = [tasks EXCEPT ![t].result = "done", ![t].pc = "end",
                                          ![shift(pullQueue)].result = "value",
                                          ![shift(pullQueue)].pc = "end",
                                          ![shift(pullQueue)].ev = tasks[t].ev,
                                          ![shift(pullQueue)].evAfterClose = tasks[t].evAfterClose,
                                          ![shift(pullQueue)].from = t]
                /\ pullQueue' = SeqRemove(pullQueue, shift(pullQueue))
                /\ UNCHANGED pushQueue
           ELSE /\ tasks' = [tasks EXCEPT ![t].result = "done", ![t].pc = "end"]
                /\ pushQueue' = Append(pushQueue, [ev |-> tasks[t].ev,
                                                   afterClose |-> tasks[t].evAfterClose,
                                                   from |-> t])
                /\ UNCHANGED pullQueue
  /\ mq' = Tail(mq)
  /\ UNCHANGED <<variant, sortVars, filterVars, loopVars, lifeVars, lastOp, lastDispatch, regVars, streamVars, eventsArray, listening,
                 subscriptionIds, waiters, closed>>

\* ---- the engine around the iterator: other subscribers and the transport
\* subscribe(trigger, callback) by another consumer of the same engine
ConsumerSubscribe(trigger) ==
  /\ currentSubscriptionId < MaxSubs
  /\ SetReg(subscribe(Reg, trigger, "callback", FALSE))
  /\ UNCHANGED <<variant, sortVars, filterVars, loopVars, lifeVars, lastOp, lastDispatch, streamVars, iterVars>>

\* unsubscribe(subId) by that consumer, with an id its subscribe resolved with
ConsumerUnsubscribe(subId) ==
  /\ subId \in resolved \ Range(subscriptionIds.ids)
  /\ LET r == unsubscribe(Reg, subId)
     IN /\ SetReg(r)
  /\ UNCHANGED <<variant, sortVars, filterVars, loopVars, lifeVars, lastOp, lastDispatch, streamVars, iterVars>>

\* the transport answers the oldest subscribe command; it does so in a task
\* of its own, when no microtask is left
TransportAcknowledge(err) ==
  /\ mq = <<>>
  /\ inflight # <<>>
  /\ LET r == subscribeCallback(Reg, err)
     IN /\ SetReg(r)
        /\ mq' = QueueSettle(mq, r, subscriptionIds)
  /\ UNCHANGED <<variant, sortVars, filterVars, loopVars, lifeVars, lastOp, lastDispatch, streamVars, eventsArray, listening, pullQueue,
                 pushQueue, subscriptionIds, tasks, waiters, closed>>

\* the transport delivers a message of a channel, in a task of its own
TransportMessage(channel, message) ==
  /\ mq = <<>>
  /\ LET calls == onMessage(Reg, "undefined", channel, message)
         st == pushValue([tasks |-> tasks, mq |-> mq, waiters |-> waiters], calls)
     IN /\ Len(st.tasks) - Cardinality(Calls) <= MaxPush
        /\ tasks' = st.tasks
        /\ mq' = st.mq
        /\ waiters' = st.waiters
  /\ UNCHANGED <<variant, sortVars, filterVars, loopVars, lifeVars, lastOp, lastDispatch, regVars, streamVars, eventsArray, listening,
                 pullQueue, pushQueue, subscriptionIds, closed>>

\* an iterator over one or two triggers on a fresh RedisPubSub
InitIter ==
  /\ variant = "pubsub"
  /\ options = DefaultOptions
  /\ eventsArray \in {<<"A">>, <<"A", "B">>}
  /\ InitEngine

NextIter ==
  \/ next
  \/ return
  \/ throw
  \/ PromiseAll
  \/ nextResume
  \/ emptyQueueResume
  \/ returnResume
  \/ pushValueResume
  \/ \E n \in Names : ConsumerSubscribe(n)
  \/ \E i \in Ids : ConsumerUnsubscribe(i)
  \/ \E e \in BOOLEAN : TransportAcknowledge(e)
  \/ \E c \in Names : TransportMessage(c, "\"a\"")

SpecIter == InitIter /\ [][NextIter]_vars

\* --------------------------------------------------------------- C8
\* C8: once return() has been called, a next() issued after it never resolves
\* with a value, and no next() resolves with the event of a message that was
\* dispatched after it.
C8_ReturnStopsDelivery ==
  (\A c \in DOMAIN tasks : tasks[c].kind # "throw") =>
    \A t \in DOMAIN tasks :
      (tasks[t].kind = "next" /\ tasks[t].result = "value") =>
        (~tasks[t].afterClose /\ ~tasks[t].evAfterClose)

\* --------------------------------------------------------------- C9
\* C9: at the step that resolves the first return() made on a listening
\* iterator, listening is false, every subscription id the iterator acquired
\* has been unsubscribed, no next() is left pending in the pull queue, and
\* the pull queue and the push queue are empty.
C9_ReturnStep ==
  \A t \in DOMAIN tasks :
    (tasks[t].kind = "return" /\ tasks[t].first
     /\ tasks[t].result = "pending" /\ tasks'[t].result = "done") =>
      /\ ~listening'
      /\ (Range(subscriptionIds'.ids) \cap resolved') \subseteq removed'
      /\ \A n \in DOMAIN tasks' : tasks'[n].pc # "pulling"
      /\ pullQueue' = <<>>
      /\ pushQueue' = <<>>

C9_ReturnCleansUp == [][C9_ReturnStep]_vars

\* -------------------------------------------------------------- C10
\* the cleanup of the return() or throw() that found the iterator listening
\* ran to its end
CleanupFinished ==
  \E t \in DOMAIN tasks :
    /\ tasks[t].kind \in {"return", "throw"} /\ tasks[t].first
    /\ (tasks[t].pc = "awaitEmpty" \/ tasks[t].result \in {"done", "thrown"})

\* C10: once return() or throw() has been called, in whatever order with
\* next(), the iterator issues no engine subscribe any more; and once the
\* cleanup has finished the engine holds no subscription record whose
\* listener is the iterator's pushValue.
C10_ClosedStep ==
  /\ closed => subscriptionIds'.ids = subscriptionIds.ids
  /\ CleanupFinished' =>
       \A i \in DOMAIN subscriptionMap' : subscriptionMap'[i].listener # "push"

C10_ClosedIsTerminal == [][C10_ClosedStep]_vars

\* -------------------------------------------------------------- C11
\* the position of task t among the tasks of its kind, in the order made
Rank(t) == Cardinality({o \in 1 .. t : tasks[o].kind = tasks[t].kind})

\* C11: a next() that resolved with a value resolved with the value of the
\* pushValue call of the same rank: the k-th next() gets the k-th event
\* dispatched, whatever trigger it came through, so no event is delivered
\* twice, skipped or out of order.
C11_Fifo ==
  \A t \in DOMAIN tasks :
    (tasks[t].kind = "next" /\ tasks[t].result = "value") =>
      /\ tasks[t].from \in Pushes
      /\ Rank(tasks[t].from) = Rank(t)
      /\ tasks[t].ev = tasks[tasks[t].from].ev

\* two next() calls got the two events dispatched over two triggers: the
\* first event found its next() waiting, the second was buffered until the
\* second next() was made
C11_Witness ==
  /\ eventsArray = <<"A", "B">>
  /\ listening
  /\ \E n1, n2 \in DOMAIN tasks, p1, p2 \in Pushes :
       /\ tasks[n1].kind = "next" /\ tasks[n2].kind = "next" /\ n1 < n2
       /\ n1 < p1 /\ p1 < p2 /\ p2 < n2
       /\ tasks[n1].result = "value" /\ tasks[n1].from = p1
       /\ tasks[n2].result = "value" /\ tasks[n2].from = p2

\* -------------------------------------------------------------- C12
\* the subscription records whose listener is the iterator's pushValue
PushSubs(m) == {i \in DOMAIN m : m[i].listener = "push"}

\* C12: before the first next() the iterator has made no engine subscribe;
\* the step that sets subscriptionIds makes exactly one subscribe per name
\* of eventsArray, in order; and no later step (a next(), a push, anything)
\* makes another.
C12_LazyStep ==
  /\ subscriptionIds.state = "unset" => PushSubs(subscriptionMap) = {}
  /\ subscriptionIds'.state = "unset" => PushSubs(subscriptionMap') = {}
  /\ (subscriptionIds.state = "unset" /\ subscriptionIds'.state # "unset") =>
       /\ Len(subscriptionIds'.ids) = Len(eventsArray)
       /\ currentSubscriptionId' = currentSubscriptionId + Len(eventsArray)
       /\ PushSubs(subscriptionMap') = Range(subscriptionIds'.ids)
       /\ Cardinality(PushSubs(subscriptionMap')) = Len(eventsArray)
       /\ \A k \in DOMAIN eventsArray :
            subscriptionMap'[subscriptionIds'.ids[k]].trigger = eventsArray[k]
  /\ subscriptionIds.state # "unset" =>
       /\ subscriptionIds'.ids = subscriptionIds.ids
       /\ PushSubs(subscriptionMap') \subseteq PushSubs(subscriptionMap)

C12_LazyOnce == [][C12_LazyStep]_vars

\* two next() calls and a push were made on an iterator of two triggers, and
\* the engine holds exactly its two subscriptions
C12_Witness ==
  /\ eventsArray = <<"A", "B">>
  /\ Cardinality({t \in DOMAIN tasks : tasks[t].kind = "next"}) >= 2
  /\ Pushes # {}
  /\ Cardinality(PushSubs(subscriptionMap)) = 2
  /\ currentSubscriptionId = 2

\* -------------------------------------------------------------- C13
\* how many times the iterator called the engine's unsubscribe with id
UnsubscribeCalls(id) ==
  LET n[t \in 0 .. Len(tasks)] ==
        IF t = 0 THEN 0 ELSE n[t - 1] + Count(tasks[t].unsub, id)
  IN n[Len(tasks)]

\* the subscription ids the iterator acquired: its subscribes that resolved
Acquired == Range(subscriptionIds.ids) \cap resolved

\* C13: with return() called any number of times (and throw() never), every
\* return() that settled resolved with done, no id is unsubscribed twice,
\* and once every return() made has settled each acquired id has been
\* unsubscribed exactly once.
C13_ReturnIdempotent ==
  LET returns == {t \in DOMAIN tasks : tasks[t].kind = "return"}
  IN (\A c \in DOMAIN tasks : tasks[c].kind # "throw") =>
       /\ \A t \in returns : tasks[t].result \in {"pending", "done"}
       /\ \A i \in Ids : UnsubscribeCalls(i) <= 1
       /\ (returns # {} /\ \A t \in returns : tasks[t].result # "pending") =>
            \A i \in Acquired : UnsubscribeCalls(i) = 1

\* -------------------------------------------------------------- C14
\* C14: the throw(error) that finds the iterator listening settles by
\* rejecting with the error it was given, and when it settles listening is
\* false, every acquired id has been unsubscribed and no next() is left
\* pending; the step of its cleanup that passes the await leaves both queues
\* empty; and no next() ever resolves with the error as its value.
C14_ThrowStep ==
  /\ \A t \in DOMAIN tasks :
       (tasks[t].kind = "throw" /\ tasks[t].first) =>
         /\ (tasks[t].result = "pending" /\ tasks'[t].result # "pending") =>
              /\ tasks'[t].result = "thrown"
              /\ ~listening'
              /\ \A i \in Range(subscriptionIds'.ids) \cap resolved' : i \in removed'
              /\ \A n \in DOMAIN tasks' : tasks'[n].pc # "pulling"
         /\ (tasks[t].pc = "awaitIds" /\ tasks'[t].pc = "awaitEmpty") =>
              (pullQueue' = <<>> /\ pushQueue' = <<>>)
  /\ \A n \in DOMAIN tasks' :
       tasks'[n].kind = "next" => tasks'[n].ev \in {"none"} \cup {parsedMessage(m) : m \in Messages}

C14_ThrowCleansUp == [][C14_ThrowStep]_vars

\* -------------------------------------------------------------- C27
\* C27: pushQueue and pullQueue are never both non-empty.
C27_QueuesExclusive == ~(pushQueue # <<>> /\ pullQueue # <<>>)

\* an event is buffered after an earlier event was handed to a waiting next()
C27_Witness ==
  /\ pushQueue # <<>>
  /\ \E t \in Calls : /\ tasks[t].kind = "next" /\ tasks[t].result = "value"
                      /\ tasks[t].from \in Pushes
                      /\ \A q \in DOMAIN pushQueue : pushQueue[q].from # tasks[t].from

\* ------------------------------------- dispatch to listeners that act
\* What the listeners of one dispatch do when invoked: listener i calls
\* unsubscribe with the ids of b[i], in order, unless it is in throwers,
\* which throw. No id is the target of two calls.
RECURSIVE Ordered(_, _)
Ordered(S, desc) ==
  IF S = {} THEN <<>>
  ELSE LET x == CHOOSE e \in S : \A o \in S : IF desc THEN o <= e ELSE e <= o
       IN <<x>> \o Ordered(S \ {x}, desc)

Behaviours(members) ==
  {b \in [members -> SUBSET members] :
     \A i, j \in members : i # j => b[i] \cap b[j] = {}}

\* RedisPubSub.onMessage, subscribers.forEach over the Set object h: entries
\* deleted before their turn are passed over, a missing subscription record
\* makes the destructuring throw, and a listener that throws ends the loop
RECURSIVE forEach(_, _, _, _, _, _, _)
forEach(r, h, order, b, desc, throwers, payload) ==
  IF order = <<>> THEN [reg |-> r, calls |-> <<>>, error |-> "none"]
  ELSE LET subId == Head(order)
           call == <<[id |-> subId, listener |-> "callback", payload |-> payload]>>
           r1 == unsubscribeAll(r, Ordered(b[subId], desc))
           rest == forEach(r1, h, Tail(order), b, desc, throwers, payload)
       IN IF subId \notin Range(r.heap[h])
          THEN forEach(r, h, Tail(order), b, desc, throwers, payload)
          ELSE IF subId \notin DOMAIN r.subs
          THEN [reg |-> r, calls |-> <<>>, error |-> "TypeError"]
          ELSE IF subId \in throwers
          THEN [reg |-> r, calls |-> call, error |-> "listener"]
          ELSE IF r1.threw
          THEN [reg |-> [r1 EXCEPT !.threw = FALSE, !.error = NoId], calls |-> call,
                error |-> "unsubscribe"]
          ELSE [reg |-> rest.reg, calls |-> call \o rest.calls, error |-> rest.error]

\* the unsubscribe calls one listener makes on the stream engine
RECURSIVE streamUnsubscribeAll(_, _)
streamUnsubscribeAll(s, ids) ==
  IF ids = <<>> \/ s.threw THEN s
  ELSE streamUnsubscribeAll(streamUnsubscribe(s, Head(ids)), Tail(ids))

\* RedisStreamPubSub.onMessage, for (const subId of subscribers): the loop
\* reads the array by index while unsubscribe splices the same array
RECURSIVE forOf(_, _, _, _, _, _, _, _)
forOf(s, streamName, lastMessageId, index, b, desc, throwers, payload) ==
  LET bucket == Bucket(s.streams, streamName, lastMessageId)
      subId == bucket[index]
      call == <<[id |-> subId, listener |-> "callback", payload |-> payload]>>
      s1 == streamUnsubscribeAll(s, Ordered(b[subId], desc))
      rest == forOf(s1, streamName, lastMessageId, index + 1, b, desc, throwers, payload)
  IN IF index > Len(bucket) THEN [reg |-> s, calls |-> <<>>, error |-> "none"]
     ELSE IF subId \notin DOMAIN s.subs
     THEN [reg |-> s, calls |-> <<>>, error |-> "TypeError"]
     ELSE IF subId \in throwers
     THEN [reg |-> s, calls |-> call, error |-> "listener"]
     ELSE IF s1.threw
     THEN [reg |-> [s1 EXCEPT !.threw = FALSE], calls |-> call, error |-> "unsubscribe"]
     ELSE [reg |-> rest.reg, calls |-> call \o rest.calls, error |-> rest.error]

\* the listener invocations owed for one message: the members at the start
\* of the dispatch, in order, each one invoked once if it is still
\* registered when its turn comes, whatever the listeners before it did
RECURSIVE Turns(_, _, _, _, _, _)
Turns(r, order, b, desc, throwers, payload) ==
  IF order = <<>> THEN <<>>
  ELSE LET subId == Head(order)
           ids == Ordered(b[subId], desc)
           r1 == IF subId \in throwers THEN r
                 ELSE IF variant = "stream" THEN streamUnsubscribeAll(r, ids)
                 ELSE unsubscribeAll(r, ids)
       IN IF subId \notin DOMAIN r.subs THEN Turns(r, Tail(order), b, desc, throwers, payload)
          ELSE <<[id |-> subId, listener |-> "callback", payload |-> payload]>>
               \o Turns([r1 EXCEPT !.threw = FALSE], Tail(order), b, desc, throwers, payload)

\* the record of a dispatch: what was invoked, what was owed, what was raised
Dispatched(pattern, channel, message, res, owed, b, throwers) ==
  [pattern |-> pattern, channel |-> channel, msg |-> message, calls |-> res.calls,
   owed |-> owed, error |-> res.error,
   unsubscribed |-> UNION {b[i] : i \in DOMAIN b}, throwers |-> throwers]

\* RedisPubSub.onMessage for a message without pattern, with listeners that
\* unsubscribe (b, desc) or throw (throwers) when invoked
Dispatch(channel, message) ==
  /\ variant = "pubsub"
  /\ LET h == subsRefsMap[messageKey("undefined", channel)]
         members == IF h = 0 THEN <<>> ELSE heap[h]
         payload == parsedMessage(message)
     IN \E b \in Behaviours(Range(members)), desc \in BOOLEAN, throwers \in SUBSET Range(members) :
          /\ throwers = {} \/ \A i \in DOMAIN b : b[i] = {}
          /\ desc => \E i \in DOMAIN b : Cardinality(b[i]) > 1
          /\ LET res == IF members = <<>> THEN [reg |-> Reg, calls |-> <<>>, error |-> "none"]
                        ELSE forEach(Reg, h, members, b, desc, throwers, payload)
             IN /\ SetReg(res.reg)
                /\ lastDispatch' = Dispatched("undefined", channel, message, res,
                                              Turns(Reg, members, b, desc, throwers, payload),
                                              b, throwers)
                /\ lastOp' = Op("dispatch", NoId, channel,
                                IF res.error = "none" THEN "ok" ELSE "threw", NoId)
  /\ UNCHANGED <<variant, sortVars, filterVars, loopVars, lifeVars, streamVars, iterVars>>

\* a bug that leaves the bucket of the old cursor in place
updateSubscriberLastMessages_keepsOld(s, streamName, oldLastMessageId, newLastMessageId) ==
  LET subscribers == Bucket(s.streams, streamName, oldLastMessageId)
      buckets == s.streams[streamName]
      moved == IF newLastMessageId \in DOMAIN buckets
               THEN buckets[newLastMessageId] \o subscribers ELSE subscribers
  IN IF subscribers = <<>> THEN s
     ELSE [s EXCEPT !.streams = Put(s.streams, streamName,
                                    Put(buckets, newLastMessageId, moved)),
                    !.subs = [i \in DOMAIN s.subs |->
                                IF i \in Range(subscribers)
                                THEN [s.subs[i] EXCEPT !.lastMessageId = newLastMessageId]
                                ELSE s.subs[i]]]

\* RedisStreamPubSub.updateSubscriberLastMessages for an updateMap of one
\* entry: the subscribers of the old cursor move to the new one
updateSubscriberLastMessages(s, streamName, oldLastMessageId, newLastMessageId) ==
  LET subscribers == Bucket(s.streams, streamName, oldLastMessageId)
      buckets == s.streams[streamName]
      moved == IF newLastMessageId \in DOMAIN buckets
               THEN buckets[newLastMessageId] \o subscribers ELSE subscribers
  IN IF subscribers = <<>> THEN s
     ELSE [s EXCEPT !.streams = Put(s.streams, streamName,
                                    Del(Put(buckets, newLastMessageId, moved), oldLastMessageId)),
                    !.subs = [i \in DOMAIN s.subs |->
                                IF i \in Range(subscribers)
                                THEN [s.subs[i] EXCEPT !.lastMessageId = newLastMessageId]
                                ELSE s.subs[i]]]

\* RedisStreamPubSub.processMessages for a read that returned one entry of
\* one stream, read after lastMessageId: onMessage, then the cursor update
processMessages(streamName, lastMessageId, messageId, message) ==
  /\ variant = "stream"
  /\ sortLastMessageIds(messageId, lastMessageId) > 0
  /\ LET members == Bucket(streamsMap, streamName, lastMessageId)
         payload == [id |-> messageId, data |-> parsedMessage(message)]
     IN \E b \in Behaviours(Range(members)), desc \in BOOLEAN, throwers \in SUBSET Range(members) :
          /\ throwers = {} \/ \A i \in DOMAIN b : b[i] = {}
          /\ desc => \E i \in DOMAIN b : Cardinality(b[i]) > 1
          /\ LET res == forOf(SReg, streamName, lastMessageId, 1, b, desc, throwers, payload)
                 s == IF res.error = "none"
                      THEN updateSubscriberLastMessages(res.reg, streamName, lastMessageId,
                                                        messageId)
                      ELSE res.reg
             IN /\ subscriptionMap' = s.subs
                /\ streamsMap' = s.streams
                /\ unblocks' = s.unblocks
                /\ removed' = s.removed
                /\ lastDispatch' = Dispatched("undefined", streamName, message, res,
                                              Turns(SReg, members, b, desc, throwers, payload),
                                              b, throwers)
                /\ lastOp' = Op("dispatch", NoId, streamName,
                                IF res.error = "none" THEN "ok" ELSE "threw", NoId)
  /\ UNCHANGED <<variant, sortVars, filterVars, loopVars, lifeVars, currentSubscriptionId, subsRefsMap, heap, inflight, transport,
                 resolved, rejected, raced, eventLoop, subscriberClientId, iterVars>>

NextDispatch ==
  \/ \E t \in Names : Subscribe(t, FALSE)
  \/ \E e \in BOOLEAN : Acknowledge(e)
  \/ \E c \in Names, m \in Messages : Dispatch(c, m)
  \/ \E n \in Names, c \in Cursors \cup {NoCursor}, t \in Times : StreamSubscribe(n, c, t)
  \/ \E n \in Names, c \in Cursors, i \in MessageIds, m \in Messages :
       processMessages(n, c, i, m)

InitDispatch ==
  /\ variant \in {"pubsub", "stream"}
  /\ options = DefaultOptions
  /\ eventsArray = <<>>
  /\ InitEngine

SpecDispatch == InitDispatch /\ [][NextDispatch]_vars

C16_ThrowingListener ==
  (variant = "pubsub" /\ lastOp.op = "dispatch" /\ lastDispatch.throwers # {}) =>
    \A o \in DOMAIN lastDispatch.owed :
      Cardinality({c \in DOMAIN lastDispatch.calls :
                     lastDispatch.calls[c].id = lastDispatch.owed[o].id}) = 1

\* ----------------------------------------------- construction and close
\* new RedisPubSub(options) or new RedisStreamPubSub(options)
Construct(ioredis) ==
  /\ construction = "none"
  /\ construction' = constructor(variant, options, ioredis).construction
  /\ clients' = constructor(variant, options, ioredis).clients
  /\ UNCHANGED <<variant, sortVars, filterVars, loopVars, options, engineClosed, closes, regVars, streamVars, lastOp,
                 lastDispatch, iterVars>>

\* waitAndProcessMessages, up to its first await: the server names the
\* connection of redisSubscriber
ClientId ==
  /\ construction = "ok" /\ variant = "stream"
  /\ eventLoop /\ DOMAIN subscriptionMap # {} /\ ~engineClosed
  /\ clients["redisSubscriber"].status = "open"
  /\ subscriberClientId = 0
  /\ subscriberClientId' = 1
  /\ UNCHANGED <<variant, sortVars, filterVars, loopVars, lifeVars, regVars, streamsMap, eventLoop, unblocks, lastOp,
                 lastDispatch, iterVars>>

\* a command sent on a handle waits there for the transport's answer
Send(cl, h, cmd, n) == [cl EXCEPT ![h].pending = Append(@, [cmd |-> cmd, close |-> n])]

\* Promise.all([redisPublisher.quit(), redisSubscriber.quit()])
quitBoth(cl, n) == Send(Send(cl, "redisPublisher", "quit", n), "redisSubscriber", "quit", n)

\* the promise of a close() call: what it waits for, the handles it sent quit
\* to, and the handles that acknowledged
Close(state, issued) == [state |-> state, issued |-> issued, acked |-> {}]

\* close(): RedisPubSubBase.close sends both quits at once;
\* RedisStreamPubSub.close sets closed, unblocks the blocked read when a
\* connection id is known, and leaves the quits to a then-callback
close ==
  /\ construction = "ok"
  /\ Len(closes) < MaxCloses
  /\ LET n == Len(closes) + 1
         missing == \E h \in Handles : clients[h].status = "undefined"
     IN IF variant = "pubsub"
        THEN /\ clients' = quitBoth(clients, n)
             /\ closes' = Append(closes, Close("quit", Handles))
             /\ UNCHANGED <<engineClosed, unblocks>>
        ELSE /\ engineClosed' = TRUE
             /\ IF subscriberClientId # 0
                THEN /\ clients' = Send(clients, "redisPublisher", "unblock", n)
                     /\ unblocks' = unblocks + 1
                     /\ closes' = Append(closes, Close("unblock", {}))
                ELSE /\ UNCHANGED <<clients, unblocks>>
                     /\ closes' = Append(closes, Close("then", {}))
  /\ UNCHANGED <<variant, sortVars, filterVars, loopVars, options, construction, regVars, streamsMap, eventLoop,
                 subscriberClientId, lastOp, lastDispatch, iterVars>>

\* the then-callback of RedisStreamPubSub.close; a handle that is undefined
\* makes it throw, which rejects the promise
closeThen(n) ==
  /\ n \in DOMAIN closes
  /\ closes[n].state = "then"
  /\ IF \E h \in Handles : clients[h].status = "undefined"
     THEN /\ closes' = [closes EXCEPT ![n].state = "rejected"]
          /\ UNCHANGED clients
     ELSE /\ closes' = [closes EXCEPT ![n].state = "quit", ![n].issued = Handles]
          /\ clients' = quitBoth(clients, n)
  /\ UNCHANGED <<variant, sortVars, filterVars, loopVars, options, construction, engineClosed, regVars, streamVars, lastOp,
                 lastDispatch, iterVars>>

\* what the answer to a command does to the close() call that sent it
settle(c, h, cmd, err) ==
  IF c.state \notin {"unblock", "quit"} THEN c
  ELSE IF err THEN [c EXCEPT !.state = "rejected"]
  ELSE IF cmd = "unblock" THEN [c EXCEPT !.state = "then"]
  ELSE [c EXCEPT !.acked = @ \cup {h},
                 !.state = IF c.acked \cup {h} = Handles THEN "resolved" ELSE "quit"]

\* the transport answers the oldest command waiting on a handle. An open
\* connection answers OK, and OK to quit ends it; on a connection that has
\* ended, a client answers with an error (err = TRUE) or, as the test double
\* does, as if nothing had happened
Reply(h, err) ==
  /\ clients[h].pending # <<>>
  /\ err => clients[h].status = "end"
  /\ LET c == Head(clients[h].pending)
     IN /\ clients' = [clients EXCEPT ![h].pending = Tail(@),
                                      ![h].status = IF c.cmd = "quit" /\ ~err THEN "end" ELSE @]
        /\ closes' = [closes EXCEPT ![c.close] = settle(@, h, c.cmd, err)]
  /\ UNCHANGED <<variant, sortVars, filterVars, loopVars, options, construction, engineClosed, regVars, streamVars, lastOp,
                 lastDispatch, iterVars>>

InitLife ==
  /\ variant \in {"pubsub", "stream"}
  /\ options \in Options
  /\ construction = "none"
  /\ clients = [h \in Handles |-> NoClient]
  /\ eventsArray = <<>>
  /\ InitFields

NextLife ==
  \/ \E ioredis \in BOOLEAN : Construct(ioredis)
  \/ construction = "ok" /\ StreamSubscribe("A", NoCursor, 1)
  \/ ClientId
  \/ close
  \/ \E n \in 1 .. MaxCloses : closeThen(n)
  \/ \E h \in Handles, err \in BOOLEAN : Reply(h, err)

SpecLife == InitLife /\ [][NextLife]_vars

\* -------------------------------------------------------------- C18
\* C18: a constructor given both a reviver and a deserializer throws the
\* Error "Reviver and deserializer can't be used together", and neither
\* handle of the engine holds a client then: none was created, none was
\* given a handler.
C18_ConflictThrowsFirst ==
  (construction # "none" /\ options.reviver /\ options.deserializer) =>
    /\ construction = ConflictMessage
    /\ \A h \in Handles :
         /\ clients[h].status = "undefined"
         /\ ~clients[h].created
         /\ clients[h].handlers = {}

\* the constructor threw although both clients were given in the options
C18_Witness ==
  /\ construction = ConflictMessage
  /\ options.reviver /\ options.deserializer
  /\ options.subscriber /\ options.publisher

\* -------------------------------------------------------------- C19
\* C19: on an engine that holds its two clients, every close() call sends
\* quit to both handles, and its promise is resolved only when both have
\* acknowledged; a close() call made after another one is not rejected, and
\* it leaves the fields of the engine as the call before it left them.
C19_CloseStep ==
  /\ \A n \in DOMAIN closes' :
       (\A h \in Handles : clients[h].status # "undefined") =>
       /\ closes'[n].state \in {"quit", "resolved", "rejected"} => closes'[n].issued = Handles
       /\ closes'[n].state = "resolved" => closes'[n].acked = Handles
       /\ n > 1 => closes'[n].state # "rejected"
  /\ (Len(closes) >= 1 /\ Len(closes') = Len(closes) + 1) =>
       UNCHANGED <<engineClosed, regVars, streamsMap, eventLoop, subscriberClientId>>

C19_CloseSafe == [][C19_CloseStep]_vars

\* ------------------------------------------------- the stream event loop
\* Object.keys(lastMessageIds).sort(sortLastMessageIds)
RECURSIVE SortCursors(_)
SortCursors(keys) ==
  IF keys = {} THEN <<>>
  ELSE LET first == CHOOSE k \in keys : \A o \in keys : sortLastMessageIds(k, o) <= 0
       IN <<first>> \o SortCursors(keys \ {first})

\* streamsAndOrderedLastMessageIds: per stream its cursors in ascending order
watchedSet(streams) == [n \in DOMAIN streams |-> SortCursors(DOMAIN streams[n])]

\* hasSubscribers()
hasSubscribers(subs) == DOMAIN subs # {}

\* the entries of a stream after a cursor, oldest first
After(entries, cursor) == SelectSeq(entries, LAMBDA e : sortLastMessageIds(e, cursor) > 0)

\* XREAD COUNT 1 for one stream named once per cursor: one group per cursor
\* that has an entry after it, holding the first such entry
RECURSIVE xread(_, _)
xread(entries, cursors) ==
  IF cursors = <<>> THEN <<>>
  ELSE (IF After(entries, Head(cursors)) = <<>> THEN <<>>
        ELSE <<Head(After(entries, Head(cursors)))>>)
       \o xread(entries, Tail(cursors))

\* the answer to a read that finds entries: a group for each cursor that has
\* one
Answer(watched, entries) ==
  LET ready == {n \in DOMAIN watched : xread(entries[n], watched[n]) # <<>>}
  IN [n \in ready |-> xread(entries[n], watched[n])]

\* the answers the server can give: the full one when it answers at once, and
\* when an append wakes a blocked read, the first group of the stream
\* appended to
Answers(watched, entries) ==
  IF DOMAIN Answer(watched, entries) = {} THEN {}
  ELSE {Answer(watched, entries)}
       \cup {[n \in {m} |-> <<Head(Answer(watched, entries)[m])>>] :
               m \in DOMAIN Answer(watched, entries)}

\* the while test of runEventLoop, then either the watched set of the next
\* waitAndProcessMessages or the end of the loop
iterate(l, subs, streams, isClosed) ==
  IF hasSubscribers(subs) /\ ~isClosed
  THEN [l EXCEPT !.pc = "clientId", !.watched = watchedSet(streams)]
  ELSE [l EXCEPT !.pc = "none", !.watched = EmptyMap]

\* a bug that logs the error and lets the loop go on
onLoopError_goOn(l) == [l EXCEPT !.logged = @ + 1]

\* the catch handler of startEventLoop: the error is logged, the loop is over
onLoopError(l) == [l EXCEPT !.pc = "dead", !.watched = EmptyMap, !.logged = @ + 1]

\* the messages.forEach of processMessages for one stream: the k-th group is
\* handed to the bucket of the k-th watched cursor
RECURSIVE onMessages(_, _, _, _, _)
onMessages(d, streams, streamName, cursors, groups) ==
  IF groups = <<>> THEN d
  ELSE LET got == [i \in DOMAIN d |->
                     IF i \in Range(Bucket(streams, streamName, Head(cursors)))
                     THEN Append(d[i], Head(groups)) ELSE d[i]]
       IN onMessages(got, streams, streamName, Tail(cursors), Tail(groups))

\* updateSubscriberLastMessages for the updateMap of one stream: the old
\* cursors in ascending order, each moved on the table the one before left
RECURSIVE updateAll(_, _, _, _)
updateAll(s, streamName, cursors, groups) ==
  IF groups = <<>> THEN s
  ELSE updateAll(updateSubscriberLastMessages(s, streamName, Head(cursors), Head(groups)),
                 streamName, Tail(cursors), Tail(groups))

\* processMessages: stream after stream, the deliveries and then the updates
RECURSIVE processAll(_, _, _)
processAll(st, watched, answer) ==
  IF DOMAIN answer = {} THEN st
  ELSE LET n == CHOOSE m \in DOMAIN answer : TRUE
           rest == [m \in DOMAIN answer \ {n} |-> answer[m]]
           d == onMessages(st.delivered, st.reg.streams, n, watched[n], answer[n])
           r == updateAll(st.reg, n, watched[n], answer[n])
       IN processAll([delivered |-> d, reg |-> r], watched, rest)

\* RedisStreamPubSub.subscribe with the start of the event loop
startingSubscribe(streamName, lastMessageIdOption) ==
  /\ subscribeStream(streamName, lastMessageIdOption, clock)
  /\ began' = Put(began, currentSubscriptionId,
                  [trigger |-> streamName,
                   lastMessageId |-> subscriptionMap'[currentSubscriptionId].lastMessageId,
                   fresh |-> log[streamName] = <<>>])
  /\ delivered' = Put(delivered, currentSubscriptionId, <<>>)
  /\ loop' = IF eventLoop THEN loop
             ELSE iterate(loop, subscriptionMap', streamsMap', engineClosed)
  /\ UNCHANGED <<log, clock, unblocked>>

\* subscribe as the runs of the event loop call it
LoopSubscribe(lastMessageIdOption) ==
  /\ currentSubscriptionId < MaxLoopSubs
  /\ startingSubscribe("A", lastMessageIdOption)

\* the server answers client('ID'); then the test before the blocking read
clientIdReply ==
  /\ variant = "stream" /\ loop.pc = "clientId"
  /\ subscriberClientId' = 1
  /\ loop' = IF ~engineClosed /\ hasSubscribers(subscriptionMap)
             THEN [loop EXCEPT !.pc = "xread"]
             ELSE iterate(loop, subscriptionMap, streamsMap, engineClosed)
  /\ eventLoop' = (loop'.pc # "none")
  /\ UNCHANGED <<variant, sortVars, filterVars, lifeVars, regVars, streamsMap, unblocks, lastOp, lastDispatch,
                 iterVars, log, clock, delivered, began, unblocked>>

\* the blocking read returns entries: processMessages, then the while test
xreadReply(answer) ==
  /\ variant = "stream" /\ loop.pc = "xread"
  /\ answer \in Answers(loop.watched, log)
  /\ LET st == processAll([delivered |-> delivered, reg |-> SReg], loop.watched, answer)
     IN /\ delivered' = st.delivered
        /\ subscriptionMap' = st.reg.subs
        /\ streamsMap' = st.reg.streams
        /\ loop' = iterate(loop, st.reg.subs, st.reg.streams, engineClosed)
  /\ eventLoop' = (loop'.pc # "none")
  /\ UNCHANGED <<variant, sortVars, filterVars, lifeVars, currentSubscriptionId, subsRefsMap, heap, inflight,
                 transport, resolved, rejected, removed, raced, subscriberClientId, unblocks,
                 lastOp, lastDispatch, iterVars, log, clock, began, unblocked>>

\* the blocking read returns null when its BLOCK time is over
xreadTimeout ==
  /\ variant = "stream" /\ loop.pc = "xread"
  /\ Answers(loop.watched, log) = {}
  /\ loop' = iterate(loop, subscriptionMap, streamsMap, engineClosed)
  /\ eventLoop' = (loop'.pc # "none")
  /\ UNCHANGED <<variant, sortVars, filterVars, lifeVars, regVars, streamsMap, subscriberClientId, unblocks, lastOp,
                 lastDispatch, iterVars, log, clock, delivered, began, unblocked>>

\* the server executes the CLIENT UNBLOCK commands sent so far: a read that is
\* blocked returns null
serverUnblock ==
  /\ variant = "stream" /\ unblocked < unblocks
  /\ unblocked' = unblocks
  /\ loop' = IF loop.pc = "xread" /\ Answers(loop.watched, log) = {}
             THEN iterate(loop, subscriptionMap, streamsMap, engineClosed)
             ELSE loop
  /\ eventLoop' = (loop'.pc # "none")
  /\ UNCHANGED <<variant, sortVars, filterVars, lifeVars, regVars, streamsMap, subscriberClientId, unblocks, lastOp,
                 lastDispatch, iterVars, log, clock, delivered, began>>

\* client('ID') or the blocking read fails
loopError ==
  /\ variant = "stream" /\ loop.pc \in {"clientId", "xread"}
  /\ loop.logged = 0
  /\ loop' = onLoopError(loop)
  /\ UNCHANGED <<variant, sortVars, filterVars, lifeVars, regVars, streamVars, lastOp, lastDispatch, iterVars, log,
                 clock, delivered, began, unblocked>>

\* XADD with the id '*': the server's millisecond and a sequence number
append(streamName) ==
  /\ variant = "stream" /\ Len(log[streamName]) < MaxEntries
  /\ LET seq == Cardinality({i \in DOMAIN log[streamName] : log[streamName][i][1] = clock})
     IN log' = [log EXCEPT ![streamName] = Append(@, <<clock, seq>>)]
  /\ UNCHANGED <<variant, sortVars, filterVars, lifeVars, regVars, streamVars, lastOp, lastDispatch, iterVars, loop,
                 clock, delivered, began, unblocked>>

\* a millisecond passes
tick ==
  /\ variant = "stream" /\ clock < MaxTime
  /\ clock' = clock + 1
  /\ UNCHANGED <<variant, sortVars, filterVars, lifeVars, regVars, streamVars, lastOp, lastDispatch, iterVars, loop,
                 log, delivered, began, unblocked>>

\* the cursors a caller can name: the start of the stream and every entry
Replays == {<<0, 0>>} \cup Range(log["A"])

InitLoop ==
  /\ variant = "stream"
  /\ options = DefaultOptions
  /\ eventsArray = <<>>
  /\ InitEngine

NextLoop ==
  \/ \E c \in Replays \cup {NoCursor} : LoopSubscribe(c)
  \/ \E i \in 0 .. (MaxLoopSubs - 1) : StreamUnsubscribe(i)
  \/ clientIdReply
  \/ \E a \in Answers(loop.watched, log) : xreadReply(a)
  \/ xreadTimeout
  \/ serverUnblock
  \/ loopError
  \/ append("A")
  \/ tick

SpecLoop == InitLoop /\ [][NextLoop]_vars

\* ------------------------------------------------------------- notions
\* a < b and a <= b in the order of positions
Before(a, b) == sortLastMessageIds(a, b) < 0
NotAfter(a, b) == sortLastMessageIds(a, b) <= 0

\* the cursor the engine records for a subscription
Cursor(i) == subscriptionMap[i].lastMessageId

\* the entries of the stream of subscription i that lie after the cursor
\* subscribe gave it, oldest first
Owed(i) == After(log[began[i].trigger], began[i].lastMessageId)

\* -------------------------------------------------------------- C28
\* C28: the cursor recorded for a subscription never moves backward; it is
\* the position of the entry delivered last to the subscription's listener,
\* or the cursor subscribe gave it when nothing was delivered; and every
\* entry between that first cursor and the recorded one was delivered.
C28_CursorStep ==
  /\ \A i \in DOMAIN subscriptionMap \cap DOMAIN subscriptionMap' :
       NotAfter(Cursor(i), subscriptionMap'[i].lastMessageId)
  /\ \A i \in DOMAIN subscriptionMap' :
       /\ subscriptionMap'[i].lastMessageId =
            IF delivered'[i] = <<>> THEN began'[i].lastMessageId
            ELSE delivered'[i][Len(delivered'[i])]
       /\ \A k \in DOMAIN log'[subscriptionMap'[i].trigger] :
            LET e == log'[subscriptionMap'[i].trigger][k]
            IN (Before(began'[i].lastMessageId, e)
                  /\ NotAfter(e, subscriptionMap'[i].lastMessageId))
               => e \in Range(delivered'[i])

C28_CursorFollowsDelivery == [][C28_CursorStep]_vars

\* -------------------------------------------------------------- C23
\* C23: when a read is processed and a member of a (stream, cursor) bucket
\* is handed an entry, every member of that bucket is handed that entry,
\* once, and all of them are then recorded in the bucket of that entry, none
\* at the old cursor.
C23_BucketStep ==
  \A n \in DOMAIN streamsMap : \A c \in DOMAIN streamsMap[n] :
    LET members == Range(streamsMap[n][c])
    IN (\E i \in members : delivered'[i] # delivered[i]) =>
         \E e \in Range(log[n]) :
           \A i \in members :
             /\ delivered'[i] = Append(delivered[i], e)
             /\ i \in DOMAIN subscriptionMap'
             /\ subscriptionMap'[i].lastMessageId = e
             /\ i \in Range(Bucket(streamsMap', n, e))
             /\ i \notin Range(Bucket(streamsMap', n, c))

C23_SharedCursor == [][C23_BucketStep]_vars

\* ---------------------------------------------------------- fairness
\* the server answers every command, and a blocked read ends when its BLOCK
\* time is over
SpecLoopFair ==
  /\ SpecLoop
  /\ WF_vars(clientIdReply)
  /\ WF_vars(\E a \in Answers(loop.watched, log) : xreadReply(a))
  /\ WF_vars(xreadTimeout)

LoopIds == 0 .. (MaxLoopSubs - 1)

\* -------------------------------------------------------------- C21
\* C21: the positions handed to the listener of a subscription are, in order
\* and with none left out, the entries of its stream after the cursor
\* subscribe gave it; and once the appends of a run are over, every such
\* entry has been handed to the listener from some point on, unless the
\* subscription is unsubscribed or an error has ended the event loop.
C21_OrderStep ==
  \A i \in DOMAIN delivered' :
    /\ Len(delivered'[i]) <= Len(After(log'[began'[i].trigger], began'[i].lastMessageId))
    /\ delivered'[i] = SubSeq(After(log'[began'[i].trigger], began'[i].lastMessageId),
                              1, Len(delivered'[i]))

C21_OrderedAtLeastOnce ==
  /\ [][C21_OrderStep]_vars
  /\ \A i \in LoopIds :
       <>[](i \in DOMAIN subscriptionMap =>
              (Range(Owed(i)) \subseteq Range(delivered[i]) \/ loop.pc = "dead"))

\* -------------------------------------------------------------- C22
\* C22: a subscription whose cursor at subscribe is m is handed only entries
\* of its stream after m, in increasing order of position and with none
\* left out, whenever they were appended; a subscription made while the
\* stream held no entry is handed the entries of the stream from the first
\* one on; and from some point on every such entry has been handed over,
\* unless the subscription is unsubscribed or an error has ended the loop.
Received(i) ==
  IF began[i].fresh THEN log[began[i].trigger] ELSE Owed(i)

C22_ReplayStep ==
  \A i \in DOMAIN delivered' :
    LET got == delivered'[i]
        due == IF began'[i].fresh THEN log'[began'[i].trigger]
               ELSE After(log'[began'[i].trigger], began'[i].lastMessageId)
    IN /\ \A k \in DOMAIN got : Before(began'[i].lastMessageId, got[k])
       /\ \A k \in DOMAIN got : \A j \in DOMAIN got : k < j => Before(got[k], got[j])
       /\ Len(got) <= Len(due)
       /\ got = SubSeq(due, 1, Len(got))

C22_Replay ==
  /\ [][C22_ReplayStep]_vars
  /\ \A i \in LoopIds :
       <>[](i \in DOMAIN subscriptionMap =>
              (delivered[i] = Received(i) \/ loop.pc = "dead"))

\* -------------------------------------------------------------- C26
\* C26: an error of client('ID') or of the blocking read is logged once and
\* ends the event loop, in a step that hands nothing to a listener and
\* changes no result of a caller and no table; and once the loop is over no
\* listener is called, the loop takes no further step, and subscribe still
\* resolves with an id and unsubscribe still returns (it throws only for an
\* id that has no subscription).
C26_ErrorStep ==
  /\ loop'.logged # loop.logged =>
       /\ loop.pc \in {"clientId", "xread"}
       /\ loop'.pc = "dead"
       /\ loop'.logged = loop.logged + 1
       /\ delivered' = delivered
       /\ lastOp' = lastOp
       /\ subscriptionMap' = subscriptionMap
       /\ streamsMap' = streamsMap
  /\ loop.pc = "dead" =>
       /\ loop' = loop
       /\ \A i \in DOMAIN delivered : delivered'[i] = delivered[i]
       /\ lastOp' # lastOp =>
            \/ lastOp'.op = "subscribe" /\ lastOp'.result = "resolved"
                 /\ lastOp'.id \in DOMAIN subscriptionMap'
            \/ lastOp'.op = "unsubscribe" /\ lastOp'.result = "ok"
                 /\ lastOp'.id \in DOMAIN subscriptionMap
            \/ lastOp'.op = "unsubscribe" /\ lastOp'.result = "threw"
                 /\ lastOp'.id \notin DOMAIN subscriptionMap

C26_LoopErrorContained == [][C26_ErrorStep]_vars

\* the loop ended by an error that was logged, with an entry still owed to a
\* subscription whose subscribe resolved
C26_Witness ==
  /\ loop.pc = "dead" /\ loop.logged = 1
  /\ lastOp.op = "subscribe" /\ lastOp.result = "resolved"
  /\ lastOp.id \in DOMAIN subscriptionMap
  /\ Owed(lastOp.id) # <<>> /\ delivered[lastOp.id] = <<>>

\* -------------------------------------------------------------- C24
\* C24: the event loop runs exactly while it is at client('ID') or at the
\* blocking read.  A subscribe made while no subscription exists and no loop
\* runs (the first one, or one made after the loop ended) starts a loop; and
\* whenever no subscription is left, the loop ends and this.eventLoop is
\* cleared, with no append needed, unless a subscribe comes first.
Running(l) == l.pc \in {"clientId", "xread"}

C24_StartStep ==
  (/\ currentSubscriptionId' # currentSubscriptionId
   /\ ~hasSubscribers(subscriptionMap)
   /\ ~Running(loop))
    => (Running(loop') /\ eventLoop')

C24_LoopLifecycle ==
  /\ [][C24_StartStep]_vars
  /\ (~hasSubscribers(subscriptionMap)) ~>
       ((~Running(loop) /\ ~eventLoop) \/ hasSubscribers(subscriptionMap))

\* -------------------------------------------------------------- C25
\* C25: every watched set the loop computes holds the bucket of every
\* subscription there is at that moment; a subscription, at whatever point
\* of the loop's iteration it was made, is unsubscribed or has its bucket in
\* the watched set of a blocking read that is issued later; and from some
\* point on every entry after its cursor has been handed to its listener.
Watched(i) ==
  /\ subscriptionMap[i].trigger \in DOMAIN loop.watched
  /\ Cursor(i) \in Range(loop.watched[subscriptionMap[i].trigger])

C25_WatchStep ==
  (loop'.watched # loop.watched /\ Running(loop')) =>
    \A i \in DOMAIN subscriptionMap' :
      /\ subscriptionMap'[i].trigger \in DOMAIN loop'.watched
      /\ subscriptionMap'[i].lastMessageId \in Range(loop'.watched[subscriptionMap'[i].trigger])

C25_NewBucketServed ==
  /\ [][C25_WatchStep]_vars
  /\ \A i \in LoopIds :
       /\ (i \in DOMAIN subscriptionMap) ~>
            (i \notin DOMAIN subscriptionMap \/ (loop.pc = "xread" /\ Watched(i)))
       /\ <>[](i \in DOMAIN subscriptionMap => Range(Owed(i)) \subseteq Range(delivered[i]))

\* -------------------------------------------- the starting position
\* subscribe with any starting position, on a stream nothing is appended to
StartSubscribe(lastMessageIdOption) == startingSubscribe("A", lastMessageIdOption)

NextStart ==
  \/ \E c \in Cursors \cup {NoCursor} : StartSubscribe(c)
  \/ \E i \in Ids : StreamUnsubscribe(i)
  \/ clientIdReply
  \/ xreadTimeout
  \/ serverUnblock
  \/ tick

SpecStart == InitLoop /\ [][NextStart]_vars

\* -------------------------------------------------------------- C31
\* C31: a subscribe that names a position is recorded at that position and
\* put in its bucket; one that names none joins the bucket of the greatest
\* position of the stream (timestamp first, then sequence) when there is a
\* bucket, and then asks for no unblock, and otherwise gets the new bucket
\* '<now>-0'; it is in no other bucket; and one unblock is asked for exactly
\* when the bucket is new and the subscriber client id is known.
C31_Placed(lastMessageIdOption) ==
  LET id == currentSubscriptionId
      had == IF "A" \in DOMAIN streamsMap THEN DOMAIN streamsMap["A"] ELSE {}
      place == IF lastMessageIdOption # NoCursor THEN lastMessageIdOption
               ELSE IF had = {} THEN <<clock, 0>>
               ELSE CHOOSE g \in had : \A o \in had : NotAfter(o, g)
  IN /\ id \in DOMAIN subscriptionMap'
     /\ subscriptionMap'[id].trigger = "A"
     /\ subscriptionMap'[id].lastMessageId = place
     /\ \A c \in DOMAIN streamsMap'["A"] : (id \in Range(streamsMap'["A"][c])) <=> (c = place)
     /\ Count(streamsMap'["A"][place], id) = 1
     /\ \A c \in had : c # place => streamsMap'["A"][c] = streamsMap["A"][c]
     /\ DOMAIN streamsMap'["A"] = had \cup {place}
     /\ unblocks' = IF place \notin had /\ subscriberClientId # 0 THEN unblocks + 1 ELSE unblocks
     /\ (lastMessageIdOption = NoCursor /\ had # {}) => unblocks' = unblocks

C31_StartStep ==
  \A c \in Cursors \cup {NoCursor} : StartSubscribe(c) => C31_Placed(c)

C31_StartingPosition == [][C31_StartStep]_vars

\* the third subscription named no position and joined the greater of two
\* buckets; an earlier one made a new bucket when the client id was known
C31_Witness ==
  /\ lastOp.op = "subscribe" /\ lastOp.id = 2
  /\ 2 \in DOMAIN subscriptionMap
  /\ DOMAIN streamsMap["A"] = {<<1, 0>>, <<2, 0>>}
  /\ streamsMap["A"][<<2, 0>>] = <<1, 2>>
  /\ clock = 1
  /\ subscriberClientId # 0 /\ unblocks = 1

\* ------------------------------------------------- position tokens
\* the numbers a token's timestamp and sequence are drawn from
Timestamps == {5, 9, 10}
Sequences == {0, 2, 5, 10}

\* the characters of a token, as their code units
Dash == 45
Zero == 48

\* the decimal text of a number, as Redis and Date.getTime() print it
RECURSIVE Decimal(_)
Decimal(n) == IF n < 10 THEN <<Zero + n>> ELSE Append(Decimal(n \div 10), Zero + (n % 10))

\* the token 'T-S'
Token(t, s) == Decimal(t) \o <<Dash>> \o Decimal(s)

\* String.prototype.split('-')
RECURSIVE split(_)
split(text) ==
  IF \A i \in DOMAIN text : text[i] # Dash THEN <<text>>
  ELSE LET at == CHOOSE i \in DOMAIN text : text[i] = Dash /\ \A j \in 1 .. (i - 1) : text[j] # Dash
       IN <<SubSeq(text, 1, at - 1)>> \o split(SubSeq(text, at + 1, Len(text)))

\* not a number
NaN == 0 - 1

\* a bug that reads the first digit only
parseInt_digit(text) ==
  IF text = <<>> \/ text[1] < Zero \/ text[1] > Zero + 9 THEN NaN ELSE text[1] - Zero

\* parseInt(text): the number spelled by the leading digits
RECURSIVE parseInt(_)
parseInt(text) ==
  IF text = <<>> \/ text[1] < Zero \/ text[1] > Zero + 9 THEN NaN
  ELSE LET rest == SubSeq(text, 1, Len(text) - 1)
           last == text[Len(text)]
       IN IF last < Zero \/ last > Zero + 9 THEN parseInt(rest)
          ELSE IF rest = <<>> THEN last - Zero
          ELSE IF \E i \in DOMAIN rest : rest[i] < Zero \/ rest[i] > Zero + 9 THEN parseInt(rest)
          ELSE 10 * parseInt(rest) + (last - Zero)

\* a.split('-').map(num => parseInt(num))
splitToken(token) == [i \in DOMAIN split(token) |-> parseInt(split(token)[i])]

\* sortLastMessageIds on the tokens themselves
sortLastMessageIdsOf(a, b) ==
  IF a = b THEN 0 ELSE sortLastMessageIds(splitToken(a), splitToken(b))

\* the order of strings by code units (the default of Array.prototype.sort)
RECURSIVE stringBefore(_, _)
stringBefore(a, b) ==
  IF b = <<>> THEN FALSE
  ELSE IF a = <<>> THEN TRUE
  ELSE IF a[1] # b[1] THEN a[1] < b[1]
  ELSE stringBefore(Tail(a), Tail(b))

Position(t, s) == [t |-> t, s |-> s, token |-> Token(t, s)]
Positions == {Position(t, s) : t \in Timestamps, s \in Sequences}

\* the comparator is called on every pair of three tokens
compare ==
  /\ compared = <<>>
  /\ tokens # <<>>
  /\ compared' = [i \in 1 .. 3 |-> [j \in 1 .. 3 |->
                    sortLastMessageIdsOf(tokens[i].token, tokens[j].token)]]
  /\ UNCHANGED <<variant, lifeVars, loopVars, regVars, streamVars, lastOp, lastDispatch,
                 iterVars, tokens, filterVars>>

InitSort ==
  /\ variant = "stream"
  /\ options = DefaultOptions
  /\ eventsArray = <<>>
  /\ construction = "ok"
  /\ clients = constructor(variant, options, TRUE).clients
  /\ InitEngineFields
  /\ InitFilterFields
  /\ tokens \in [1 .. 3 -> Positions]
  /\ compared = <<>>

NextSort == compare

SpecSort == InitSort /\ [][NextSort]_vars

\* -------------------------------------------------------------- C32
\* C32: for any three tokens 'T-S', sortLastMessageIds is negative exactly
\* when the first has the smaller timestamp, or the same timestamp and the
\* smaller sequence, both read as numbers; it is zero only for equal tokens;
\* the results for (a, b) and (b, a) have opposite signs; a before b and b
\* before c give a before c; and '9-5' comes before '10-0' and '5-2' before
\* '5-10', against the order of the strings.
Sign(n) == IF n < 0 THEN 0 - 1 ELSE IF n > 0 THEN 1 ELSE 0

C32_TotalOrder ==
  compared # <<>> =>
    /\ \A i \in 1 .. 3 : \A j \in 1 .. 3 :
         /\ compared[i][j] < 0 <=>
              \/ tokens[i].t < tokens[j].t
              \/ tokens[i].t = tokens[j].t /\ tokens[i].s < tokens[j].s
         /\ compared[i][j] = 0 <=> tokens[i].token = tokens[j].token
         /\ Sign(compared[i][j]) = 0 - Sign(compared[j][i])
    /\ \A i \in 1 .. 3 : \A j \in 1 .. 3 : \A k \in 1 .. 3 :
         (compared[i][j] <= 0 /\ compared[j][k] <= 0) => compared[i][k] <= 0
    /\ \A i \in 1 .. 3 : \A j \in 1 .. 3 :
         /\ (tokens[i].token = Token(9, 5) /\ tokens[j].token = Token(10, 0))
              => compared[i][j] < 0
         /\ (tokens[i].token = Token(5, 2) /\ tokens[j].token = Token(5, 10))
              => compared[i][j] < 0

\* '9-5', '10-0' and '5-10' were compared: the comparator puts '9-5' first
\* where the order of strings puts '10-0' first
C32_Witness ==
  /\ compared # <<>>
  /\ tokens[1].token = Token(9, 5) /\ tokens[2].token = Token(10, 0)
  /\ tokens[3].token = Token(5, 10)
  /\ compared[1][2] < 0
  /\ stringBefore(tokens[2].token, tokens[1].token)
  /\ stringBefore(tokens[3].token, Token(5, 2))

\* -------------------------------------------------------------- C33
\* C33: in every state of the channel registry, every id in the
\* reference-set held for a channel has a subscription record of that
\* channel; and every subscription whose promise resolved and that was not
\* unsubscribed has a record and is in the reference-set held for its channel.
C33_RegistryConsistent ==
  variant = "pubsub" =>
    /\ \A n \in Names : \A i \in Range(Held(n)) :
         i \in DOMAIN subscriptionMap /\ subscriptionMap[i].trigger = n
    /\ \A i \in Live :
         /\ i \in DOMAIN subscriptionMap
         /\ i \in Range(Held(subscriptionMap[i].trigger))

\* -------------------------------------------------------------- C34
\* C34: an unsubscribe(id) that returns removes the record of id and takes id
\* out of the reference-set of its channel, and nothing else: every other
\* subscription keeps its record, is in the reference-set held for a channel
\* after the call exactly when it was before, and a subscription still
\* awaiting its acknowledgment keeps the reference-set it is going to join
\* held by the engine (so it will receive messages and its own unsubscribe
\* will not throw).
HeldOf(refsMap, sets, name) == IF refsMap[name] = 0 THEN <<>> ELSE sets[refsMap[name]]

C34_FrameStep ==
  (variant = "pubsub" /\ removed' # removed) =>
    \E id \in removed' \ removed :
      /\ removed' = removed \cup {id}
      /\ id \notin DOMAIN subscriptionMap'
      /\ \A n \in Names : id \notin Range(HeldOf(subsRefsMap', heap', n))
      /\ \A other \in DOMAIN subscriptionMap \ {id} :
           /\ other \in DOMAIN subscriptionMap'
           /\ subscriptionMap'[other] = subscriptionMap[other]
           /\ \A n \in Names :
                (other \in Range(HeldOf(subsRefsMap', heap', n)))
                  <=> (other \in Range(Held(n)))
      /\ \A k \in DOMAIN inflight :
           subsRefsMap[inflight[k].name] = inflight[k].refs
             => subsRefsMap'[inflight[k].name] = inflight[k].refs

C34_UnsubscribeFrame == [][C34_FrameStep]_vars

\* ------------------------------------- unsubscribe before the acknowledgment
\* RedisPubSub.unsubscribe called with the id of a subscribe whose command the
\* transport has not acknowledged yet
EarlyUnsubscribe(subId) ==
  /\ variant = "pubsub"
  /\ subId \in InFlightIds(inflight, "A") \cup InFlightIds(inflight, "B")
  /\ LET r == unsubscribe(Reg, subId)
     IN /\ SetReg(r)
        /\ lastOp' = Op("unsubscribe", subId,
                        IF subId \in DOMAIN subscriptionMap
                        THEN subscriptionMap[subId].trigger ELSE "null",
                        IF r.threw THEN "threw" ELSE "ok", r.error)
  /\ lastDispatch' = NoDispatch
  /\ UNCHANGED <<variant, sortVars, filterVars, loopVars, lifeVars, streamVars, iterVars>>

InitEarly ==
  /\ variant = "pubsub"
  /\ options = DefaultOptions
  /\ eventsArray = <<>>
  /\ InitEngine

NextEarly ==
  \/ \E t \in Names, p \in BOOLEAN : Subscribe(t, p)
  \/ \E e \in BOOLEAN : Acknowledge(e)
  \/ \E i \in 0 .. MaxSubs : Unsubscribe(i)
  \/ \E i \in Ids : EarlyUnsubscribe(i)
  \/ \E p \in Names \cup {"undefined"}, c \in Names, m \in Messages : Message(p, c, m)

SpecEarly == InitEarly /\ [][NextEarly]_vars

\* -------------------------------------------------------------- C35
\* C35: when the transport acknowledges the subscribe command of an id that
\* was unsubscribed while the command was in flight, the id is afterwards in
\* no reference-set the engine holds, and if no subscription record and no
\* command in flight is left for the channel, the last command issued for
\* the channel is not a subscribe; and no message ever invokes the listener
\* of an unsubscribed id.
C35_AckStep ==
  /\ (/\ variant = "pubsub"
      /\ inflight # <<>>
      /\ inflight' = Tail(inflight)
      /\ Head(inflight).id \in removed
      /\ Head(inflight).id \in resolved')
       => LET id == Head(inflight).id
              name == Head(inflight).name
          IN /\ \A n \in Names : id \notin Range(HeldOf(subsRefsMap', heap', n))
             /\ (/\ InFlightIds(inflight', name) = {}
                 /\ \A j \in DOMAIN subscriptionMap' : subscriptionMap'[j].trigger # name)
                  => transport'[name].last \notin {"subscribe", "psubscribe"}
  /\ \A k \in DOMAIN lastDispatch'.calls : lastDispatch'.calls[k].id \notin removed'

C35_UnsubscribeBeforeAck == [][C35_AckStep]_vars

\* ------------------------------------------- the iterator, scheduled fairly
\* every queued microtask runs, and the transport answers every command
SpecIterFair ==
  /\ SpecIter
  /\ WF_vars(PromiseAll)
  /\ WF_vars(nextResume)
  /\ WF_vars(emptyQueueResume)
  /\ WF_vars(returnResume)
  /\ WF_vars(pushValueResume)
  /\ WF_vars(\E e \in BOOLEAN : TransportAcknowledge(e))

\* -------------------------------------------------------------- C36
\* C36: no return() ever rejects; and once return() has been called, from
\* some point on every return() has resolved with done, no next() made
\* before the first return() is still pending, and every subscription id
\* the iterator acquired has been unsubscribed.
C36_ReturnStep ==
  \A t \in DOMAIN tasks' :
    tasks'[t].kind = "return" => tasks'[t].result \in {"pending", "done"}

C36_ReturnTerminates ==
  /\ [][C36_ReturnStep]_vars
  /\ <>[]((\E t \in DOMAIN tasks : tasks[t].kind = "return") =>
            /\ \A t \in DOMAIN tasks :
                 tasks[t].kind = "return" => tasks[t].result = "done"
            /\ \A t \in DOMAIN tasks :
                 (tasks[t].kind = "next" /\ ~tasks[t].afterClose)
                   => tasks[t].result # "pending"
            /\ Acquired \subseteq removed)

\* -------------------------------------------------------------- C37
\* C37: whenever the engine is not closed and a stream subscription exists,
\* this.eventLoop is set and the loop it names is running (it is at
\* client('ID') or at a blocking read), also after the loop was ended by an
\* error; startEventLoop starts a loop only when this.eventLoop is not set,
\* so there is never a second one.
C37_OneLoopActive ==
  (variant = "stream" /\ ~engineClosed /\ hasSubscribers(subscriptionMap)) =>
    (eventLoop /\ Running(loop))

\* -------------------------------------------------------------- C38
\* C38: in every state of the stream engine, each subscription that has a
\* record is once in the bucket of the stream and cursor of its record and
\* in no other bucket; every id in a bucket has a record (no unsubscribed id
\* is left in one); no bucket is empty and no stream is left without a
\* bucket.
C38_BucketsConsistent ==
  variant = "stream" =>
    /\ \A i \in DOMAIN subscriptionMap :
         LET stream == subscriptionMap[i].trigger
             cursor == subscriptionMap[i].lastMessageId
         IN /\ Count(Bucket(streamsMap, stream, cursor), i) = 1
            /\ \A n \in DOMAIN streamsMap : \A c \in DOMAIN streamsMap[n] :
                 (i \in Range(streamsMap[n][c])) => (n = stream /\ c = cursor)
    /\ \A n \in DOMAIN streamsMap :
         /\ DOMAIN streamsMap[n] # {}
         /\ \A c \in DOMAIN streamsMap[n] :
              /\ streamsMap[n][c] # <<>>
              /\ \A i \in Range(streamsMap[n][c]) :
                   i \in DOMAIN subscriptionMap /\ i \notin removed

\* two subscriptions that began at different cursors were moved by cursor
\* advances into one bucket, at the position of the entry both got last
C38_Witness ==
  /\ DOMAIN subscriptionMap = {0, 1}
  /\ began[0].lastMessageId # began[1].lastMessageId
  /\ delivered[0] # <<>> /\ delivered[1] # <<>>
  /\ \E e \in Range(log["A"]) :
       /\ DOMAIN streamsMap["A"] = {e}
       /\ Range(streamsMap["A"][e]) = {0, 1}

\* ----------------------------------------------------------- withFilter
\* the values of the events, and the value of the terminal payload
Values == {"x", "y"}
Undefined == "undefined"

\* what filterFn does with a value: it returns true, false, something else
\* that is truthy, or a promise that rejects, or it throws
Outcomes == {"true", "false", "truthy", "rejects", "throws"}

\* the payload { value, done } of the wrapped iterator
Payload(value, done) == [value |-> value, done |-> done]
DonePayload == Payload(Undefined, TRUE)

\* asyncIterator.next() of the wrapped PubSubAsyncIterator, called by
\* getNextPromise in its round n: a done payload once the iterator was
\* returned, else the oldest buffered event, else the call waits
getNextPromise(w, n) ==
  IF w.done
  THEN [wrapped |-> w, nextPromise |-> [pc |-> "filter", payload |-> DonePayload, round |-> n]]
  ELSE IF w.values # <<>>
  THEN [wrapped |-> [w EXCEPT !.values = Tail(w.values)],
        nextPromise |-> [pc |-> "filter", payload |-> Payload(Head(w.values), FALSE),
                         round |-> n]]
  ELSE [wrapped |-> [w EXCEPT !.waiting = TRUE],
        nextPromise |-> [pc |-> "next", payload |-> NoPayload, round |-> n]]

\* filterResult === true
passes(filterResult) == filterResult = "true"

\* next() of the filtered iterator; the consumer awaits each call
filteredNext ==
  /\ filterFn # <<>>
  /\ nextPromise.pc = "idle"
  /\ Len(results) < MaxFilterCalls
  /\ LET st == getNextPromise(wrapped, 0)
     IN /\ wrapped' = st.wrapped
        /\ nextPromise' = st.nextPromise
  /\ UNCHANGED <<variant, lifeVars, loopVars, regVars, streamVars, lastOp, lastDispatch,
                 iterVars, sortVars, filterFn, results, emitted>>

\* the wrapped iterator is given an event: it resolves the waiting next()
\* or buffers the event
wrappedPush(value) ==
  /\ filterFn # <<>>
  /\ ~wrapped.done
  /\ Len(emitted) < MaxEmit
  /\ emitted' = Append(emitted, value)
  /\ IF wrapped.waiting
     THEN /\ wrapped' = [wrapped EXCEPT !.waiting = FALSE]
          /\ nextPromise' = [nextPromise EXCEPT !.pc = "filter",
                                                !.payload = Payload(value, FALSE)]
     ELSE /\ wrapped' = [wrapped EXCEPT !.values = Append(@, value)]
          /\ UNCHANGED nextPromise
  /\ UNCHANGED <<variant, lifeVars, loopVars, regVars, streamVars, lastOp, lastDispatch,
                 iterVars, sortVars, filterFn, results>>

\* return() of the filtered iterator: asyncIterator.return(), which drops the
\* buffered events and resolves the waiting next() with a done payload
filteredReturn ==
  /\ filterFn # <<>>
  /\ ~wrapped.done
  /\ wrapped' = [values |-> <<>>, waiting |-> FALSE, done |-> TRUE]
  /\ nextPromise' = IF wrapped.waiting
                    THEN [nextPromise EXCEPT !.pc = "filter", !.payload = DonePayload]
                    ELSE nextPromise
  /\ UNCHANGED <<variant, lifeVars, loopVars, regVars, streamVars, lastOp, lastDispatch,
                 iterVars, sortVars, filterFn, results, emitted>>

\* the two then callbacks of getNextPromise: filterFn is applied to the value
\* of the payload, and the payload is returned or the next one is asked for
filterSettles ==
  /\ nextPromise.pc = "filter"
  /\ LET filterResult == filterFn[nextPromise.payload.value]
         st == getNextPromise(wrapped, 1 - nextPromise.round)
     IN IF filterResult = "throws"
        THEN /\ results' = Append(results, [settled |-> "rejected",
                                            payload |-> nextPromise.payload])
             /\ nextPromise' = NoCall
             /\ UNCHANGED wrapped
        ELSE IF passes(IF filterResult = "rejects" THEN "false" ELSE filterResult)
        THEN /\ results' = Append(results, [settled |-> "resolved",
                                            payload |-> nextPromise.payload])
             /\ nextPromise' = NoCall
             /\ UNCHANGED wrapped
        ELSE /\ wrapped' = st.wrapped
             /\ nextPromise' = st.nextPromise
             /\ UNCHANGED results
  /\ UNCHANGED <<variant, lifeVars, loopVars, regVars, streamVars, lastOp, lastDispatch,
                 iterVars, sortVars, filterFn, emitted>>

InitFilter ==
  /\ variant = "pubsub"
  /\ options = DefaultOptions
  /\ eventsArray = <<"A">>
  /\ construction = "ok"
  /\ clients = constructor(variant, options, TRUE).clients
  /\ InitEngineFields
  /\ InitSortFields
  /\ filterFn \in [Values \cup {Undefined} -> Outcomes]
  /\ wrapped = [values |-> <<>>, waiting |-> FALSE, done |-> FALSE]
  /\ nextPromise = NoCall
  /\ results = <<>>
  /\ emitted = <<>>

NextFilter ==
  \/ filteredNext
  \/ \E v \in Values : wrappedPush(v)
  \/ filteredReturn
  \/ filterSettles

SpecFilter == InitFilter /\ [][NextFilter]_vars

\* every then callback that is ready runs
SpecFilterFair == SpecFilter /\ WF_vars(filterSettles)

\* -------------------------------------------------------------- C39
\* C39: next() of the filtered iterator resolves with an event only when
\* filterFn returned true for its value; the events it resolved with are, in
\* order, the first events given to the wrapped iterator for which filterFn
\* returns true; and once the wrapped iterator has been returned, the next()
\* in progress settles, whatever filterFn answers for the terminal payload.
C39_FilterStep ==
  /\ \A k \in DOMAIN results' :
       (results'[k].settled = "resolved" /\ ~results'[k].payload.done)
         => filterFn'[results'[k].payload.value] = "true"
  /\ LET resolved1 == SelectSeq(results', LAMBDA r : r.settled = "resolved" /\ ~r.payload.done)
         passing1 == SelectSeq(emitted', LAMBDA v : filterFn'[v] = "true")
     IN /\ Len(resolved1) <= Len(passing1)
        /\ \A k \in DOMAIN resolved1 : resolved1[k].payload.value = passing1[k]

C39_FilteredNext ==
  /\ [][C39_FilterStep]_vars
  /\ (wrapped.done /\ nextPromise.pc # "idle") ~> (nextPromise.pc = "idle")

====
